---- MODULE Spec2Model ----
(***************************************************************************)
(* Dump1090 network service fabric (src/net_io.c): the event handler       *)
(* net_handler() driven by the Mongoose reactor, the per-service lists of  *)
(* connection records, the statistics counters, the unique-IP array, the   *)
(* active-connect timer and the shutdown path net_exit().                  *)
(*                                                                         *)
(* The program's globals (Modes.*, modeS_net_services[], g_unique_ips) are *)
(* the variables below.  Every C function that changes them is an operator *)
(* from a record of the globals to the record after the call, so that the  *)
(* sequential calls inside one handler compose as in the C code; an action *)
(* installs the result of one whole callback.  The HTTP handler and the    *)
(* 2.4 MHz demodulator (src/src/externals/demod_2400.c) follow the same    *)
(* scheme; the demodulator's loop is followed position by position.        *)
(***************************************************************************)
EXTENDS Integers, Sequences, FiniteSets, TLC

(* ---- bounds of the model ---- *)
MaxId    == 2     \* reactor connections created during one run
MaxPub   == 2     \* the same, in the runs that publish messages
MaxClients == 3   \* the same, in the runs about the connection lists
MaxBytes == 1     \* total of the byte counts reported by Read/Write events
MaxSend  == 2     \* calls of net_connection_send during one run
MaxIo    == 1     \* clients accepted in the runs with Read and Write events
MaxHttp  == 1     \* clients accepted by the HTTP service in the HTTP runs
MaxReq   == 1     \* HTTP requests handled during one run
MaxKa    == 2     \* the same, in the runs about the keep-alive option
MaxLen   == 120   \* samples in the longest magnitude buffer
MaxScore == 0     \* the highest score scoreModesMessage returns
MaxRecv  == 2     \* bytes received in the runs about the input framing
MaxSpec  == 9     \* characters of the longest deny-list spec
MaxGrow  == 2     \* entries of the unique-IP array behind its first size
MaxDamage == 2    \* damaged bits asked of generate_damage_set
MaxLines == 2     \* lines of the first config file

(* ---- program constants ---- *)
MODES_NET_SERVICE_RAW_OUT == 0
MODES_NET_SERVICE_RAW_IN  == 1
MODES_NET_SERVICE_SBS_OUT == 2
MODES_NET_SERVICE_SBS_IN  == 3
MODES_NET_SERVICE_HTTP    == 4
MODES_NET_SERVICE_FIRST   == 0
MODES_NET_SERVICE_LAST    == 4
UNIQUE_IP_INCR            == 200
SIZEOF_unique_IP          == 40     \* mg_addr, intptr_t, FILETIME (64 bit)
LOOPBACK_IP4              == 16777343    \* 0x0100007F
UINT16_MOD                == 65536

Services == MODES_NET_SERVICE_FIRST .. MODES_NET_SERVICE_LAST

\* The services net_init() gives a listener in passive mode, and the ones
\* it connects in --net-active mode.
ListenServices == {MODES_NET_SERVICE_RAW_IN, MODES_NET_SERVICE_RAW_OUT,
                   MODES_NET_SERVICE_SBS_OUT, MODES_NET_SERVICE_HTTP}
ActiveServices == {MODES_NET_SERVICE_RAW_IN, MODES_NET_SERVICE_SBS_IN}

\* The listeners on which the modelled clients connect: one output service
\* and one input service.
ClientServices == {MODES_NET_SERVICE_RAW_OUT, MODES_NET_SERVICE_RAW_IN}

(* ---- remote addresses (mg_addr): ip bytes in network order, port ---- *)
Loopback == [ip |-> <<127, 0, 0, 1>>, port |-> 1, is_ip6 |-> FALSE]
Extern   == [ip |-> <<10, 0, 0, 1>>, port |-> 1, is_ip6 |-> FALSE]
Extern2  == [ip |-> <<10, 0, 0, 1>>, port |-> 2, is_ip6 |-> FALSE]
mg_addr  == {Loopback, Extern, Extern2}

Ids == 1 .. (IF MaxId > MaxClients THEN MaxId ELSE MaxClients)

VARIABLES
  exit,             \* Modes.exit
  net_active,       \* Modes.net_active
  is_udp,           \* modeS_net_services[s].is_udp
  connections,      \* Modes.connections[s]: the linked list, head first
  stat,             \* Modes.stat: the per-service counters
  num_connections,  \* modeS_net_services[s].num_connections (uint16_t)
  last_err,         \* modeS_net_services[s].last_err (<<>> is NULL)
  timer,            \* modeS_net_services[s].timer
  g_unique_ips,     \* g_unique_ips: the entries ips[0..idx-1] and size
  closing,          \* ids of the mg_connections net_handler marked is_closing
  heap,             \* number of free() calls on each connection record
  http,             \* Modes.keep_alive, the static buffer of set_headers,
                    \* the last status of net_handler_http, the last reply
                    \* and the last request delivered
  demod,            \* the demodulator: its options, its static bitsets, the
                    \* locals of demodulate2400 and its position, the
                    \* statistics and the messages given to netUseMessage
  init,             \* net_init: the hosts of the active services, the
                    \* listeners set up, the service whose set-up failed,
                    \* the value returned, whether a packed web DLL is
                    \* used and what stat() finds at web_root/web_page
  rx,               \* c->recv of the connections of the input services, the
                    \* calls of the frame handler during the last Read
                    \* callback and whether net_connection_recv is still in
                    \* its loop
  deny4,            \* the deny-list test: the spec given to the handler and
                    \* the spec it handed to mg_check_ip_acl
  cfg_file,         \* the config-file parser: the files, g_ctx and g_idx,
                    \* the targets of the caller's table, the warnings
                    \* and the value cfg_open_and_parse returned
  mgr,              \* Modes.mgr.conns: the reactor's connections by id
  next_id,          \* the id the reactor gives its next connection
  send_q,           \* what mg_send() has queued on each mg_connection
  sent_log,         \* the messages handed to net_connection_send, per service
  joined,           \* how many messages had been published when the record
                    \* of a connection was linked
  bytes_total,      \* sum of the byte counts of the Read/Write events so far
  pc,               \* "init" before net_init, "failed" when it returned
                    \* false, "running", "hung" when a callback never
                    \* returns, or "exited" once net_exit has returned
  net_exit_ret      \* the value net_exit returned

gvars == <<exit, connections, stat, num_connections, last_err, timer,
           g_unique_ips, closing, heap, http, demod, init, rx, deny4,
           cfg_file>>
vars  == <<exit, net_active, is_udp, connections, stat, num_connections,
           last_err, timer, g_unique_ips, closing, heap, http, demod, init,
           rx, deny4, cfg_file, mgr, next_id, send_q, sent_log, joined,
           bytes_total, pc, net_exit_ret>>

(* ---- the globals as one record, for the C functions below ---- *)
Globals ==
  [exit |-> exit, connections |-> connections, stat |-> stat,
   num_connections |-> num_connections, last_err |-> last_err,
   timer |-> timer, g_unique_ips |-> g_unique_ips, closing |-> closing,
   heap |-> heap, http |-> http, demod |-> demod, init |-> init, rx |-> rx,
   deny4 |-> deny4, cfg_file |-> cfg_file]

\* The state after a call that left the globals as `after`.
Install(after) ==
  \E g \in {after} :
    /\ exit' = g.exit
    /\ connections' = g.connections
    /\ stat' = g.stat
    /\ num_connections' = g.num_connections
    /\ last_err' = g.last_err
    /\ timer' = g.timer
    /\ g_unique_ips' = g.g_unique_ips
    /\ closing' = g.closing
    /\ heap' = g.heap
    /\ http' = g.http
    /\ demod' = g.demod
    /\ init' = g.init
    /\ rx' = g.rx
    /\ deny4' = g.deny4
    /\ cfg_file' = g.cfg_file

NULL == 0

\* The service table of net_io.c, column `descr`.
net_service_descr(service) ==
  CASE service = MODES_NET_SERVICE_RAW_OUT -> "Raw TCP output"
    [] service = MODES_NET_SERVICE_RAW_IN  -> "Raw TCP input"
    [] service = MODES_NET_SERVICE_SBS_OUT -> "SBS TCP output"
    [] service = MODES_NET_SERVICE_SBS_IN  -> "SBS TCP input"
    [] service = MODES_NET_SERVICE_HTTP    -> "HTTP server"

\* Strings are sequences of their parts; the url of a service is one part.
net_service_url(service) == "<url>"

StartsWith(str, prefix) == Len(str) >= 1 /\ str[1] = prefix

(* ---- intrusive list macros ---- *)
LIST_ADD_TAIL(list, conn) == Append(list, conn)

LIST_DELETE(list, i) ==
  [k \in 1 .. (Len(list) - 1) |-> IF k < i THEN list[k] ELSE list[k + 1]]

Bump(f, service) == [f EXCEPT ![service] = @ + 1]

\* modeS_signal_handler(0): break out of the main loop.
modeS_signal_handler(g) == [g EXCEPT !.exit = TRUE]

net_store_error(g, service, err) ==
  [g EXCEPT !.last_err[service] = err]

net_error_details(in_out) == <<in_out, "(sock ", "<details>", ")">>

\* As mg_timer_free, but leaving the timer in the list of timers.
mg_timer_free_kept(g, service) == g

mg_timer_free(g, service) ==
  [g EXCEPT !.timer[service] = IF @ = "unset" THEN @ ELSE "freed"]

net_num_connections_inc(g, service) ==
  [g EXCEPT !.num_connections[service] = (@ + 1) % UINT16_MOD]

net_num_connections_dec(g, service) ==
  [g EXCEPT !.num_connections[service] = (@ + UINT16_MOD - 1) % UINT16_MOD]

(* ---- connection_get ---- *)
\* As connection_find, but without the comparison of the addresses.
RECURSIVE connection_find_any_addr(_, _, _, _)
connection_find_any_addr(list, rem, service, i) ==
  IF i > Len(list) THEN 0
  ELSE IF list[i].service = service THEN i
  ELSE connection_find_any_addr(list, rem, service, i + 1)

\* Index of the first record of the list with this service and remote
\* address, 0 when there is none.
RECURSIVE connection_find(_, _, _, _)
connection_find(list, rem, service, i) ==
  IF i > Len(list) THEN 0
  ELSE IF list[i].service = service /\ list[i].rem = rem THEN i
  ELSE connection_find(list, rem, service, i + 1)

\* Returns the record's identity (NULL when not found) and the globals,
\* where a failed lookup has been counted.
connection_get(g, c, service, is_server) ==
  LET i == connection_find(g.connections[service], c.rem, service, 1) IN
  IF i # 0
    THEN [conn |-> g.connections[service][i].id, g |-> g]
    ELSE [conn |-> NULL,
          g |-> IF is_server
                  THEN [g EXCEPT !.stat.srv_unknown = Bump(@, service)]
                  ELSE [g EXCEPT !.stat.cli_unknown = Bump(@, service)]]

(* ---- net_conn_free ---- *)
RECURSIVE list_index_of(_, _, _)
list_index_of(list, id, i) ==
  IF i > Len(list) THEN 0
  ELSE IF list[i].id = id THEN i
  ELSE list_index_of(list, id, i + 1)

\* this_conn->c->is_accepted.  The mg_connection behind `c` may have been
\* closed and freed by the reactor; the read then yields whatever the freed
\* memory holds, which is the bit uaf[id].
read_is_accepted(m, conn, uaf) ==
  IF m[conn.c].state = "freed" THEN uaf[conn.id] ELSE m[conn.c].is_accepted

net_conn_free(g, m, this_conn, service, uaf) ==
  IF this_conn = NULL THEN g
  ELSE
    LET list == g.connections[service]
        i    == list_index_of(list, this_conn, 1)
    IN  IF i = 0 THEN g
        ELSE
          LET g1 == [g EXCEPT !.connections[service] = LIST_DELETE(list, i)]
              g2 == IF read_is_accepted(m, list[i], uaf)
                      THEN [g1 EXCEPT !.stat.cli_removed = Bump(@, service)]
                      ELSE [g1 EXCEPT !.stat.srv_removed = Bump(@, service)]
          IN  [g2 EXCEPT !.heap[this_conn] = @ + 1]

(* ---- access control and the unique-IP array ---- *)
\* *(const uint32_t*) &addr->ip on a little-endian machine.
ip4_of(addr) ==
  addr.ip[1] + 256 * addr.ip[2] + 65536 * addr.ip[3] + 16777216 * addr.ip[4]

client_is_extern(addr) ==
  IF addr.is_ip6 THEN FALSE ELSE ip4_of(addr) # LOOPBACK_IP4

\* The deny-list lookup is a stub.
client_deny(addr, service) == FALSE

\* The loop over ips[i..idx-1]: whether memcmp() finds the address.
unique_ip_seen(ips, addr, i) ==
  \E k \in i .. Len(ips) : ips[k].addr.ip = addr.ip

\* Returns [ret, g].  realloc_ok is the outcome of realloc() when the
\* array is full.
client_is_unique(g, addr, service, realloc_ok) ==
  LET u == g.g_unique_ips IN
  IF unique_ip_seen(u.ips, addr, 1) THEN [ret |-> FALSE, g |-> g]
  ELSE IF Len(u.ips) >= u.size /\ ~realloc_ok THEN [ret |-> TRUE, g |-> g]
  ELSE
    LET full  == Len(u.ips) >= u.size
        size1 == IF full THEN u.size + UNIQUE_IP_INCR ELSE u.size
        \* realloc (g_unique_ips.ips, g_unique_ips.size + UNIQUE_IP_INCR):
        \* the new size of the block, in bytes
        bytes1 == IF full THEN u.size + UNIQUE_IP_INCR ELSE u.bytes
    IN  [ret |-> TRUE,
         g   |-> [g EXCEPT !.g_unique_ips =
                    [ips   |-> Append(u.ips, [addr |-> addr, service |-> service]),
                     size  |-> size1,
                     bytes |-> bytes1]]]

\* As client_handler, but classifying only the addresses that are not
\* loopback.
client_handler_extern_only(g, c, service, ev, realloc_ok) ==
  IF ev = "MG_EV_ACCEPT" /\ client_is_extern(c.rem)
    THEN LET u  == client_is_unique(g, c.rem, service, realloc_ok)
             g1 == IF u.ret
                     THEN [u.g EXCEPT !.stat.unique_clients = Bump(@, service)]
                     ELSE u.g
         IN  [ret |-> ~client_deny(c.rem, service), g |-> g1]
    ELSE [ret |-> TRUE, g |-> g]

\* Returns [ret, g]: ret is FALSE when the client is to be dropped.
client_handler(g, c, service, ev, realloc_ok) ==
  IF ev = "MG_EV_ACCEPT"
    THEN LET u  == client_is_unique(g, c.rem, service, realloc_ok)
             g1 == IF u.ret
                     THEN [u.g EXCEPT !.stat.unique_clients = Bump(@, service)]
                     ELSE u.g
             deny == client_is_extern(c.rem) /\ client_deny(c.rem, service)
         IN  [ret |-> ~deny, g |-> g1]
    ELSE [ret |-> TRUE, g |-> g]

(* ---- failures ---- *)
connection_failed_active(g, c, service) ==
  net_store_error(g, service, net_error_details("Connection out "))

\* As connection_failed_accepted, but fatal like a failed active connect.
connection_failed_accepted_fatal(g, m, c, service, uaf) ==
  LET r  == connection_get(g, c, service, TRUE)
      g1 == net_store_error(r.g, service, net_error_details("Connection in "))
  IN  modeS_signal_handler(net_conn_free(g1, m, r.conn, service, uaf))

connection_failed_accepted(g, m, c, service, uaf) ==
  LET r  == connection_get(g, c, service, TRUE)
      g1 == net_store_error(r.g, service, net_error_details("Connection in "))
  IN  net_conn_free(g1, m, r.conn, service, uaf)

\* The record calloc()ed and filled in on Connect and on Accept.
new_connection(c, service) ==
  [c |-> c.id, id |-> c.id, rem |-> c.rem, service |-> service,
   keep_alive |-> FALSE, encoding_gzip |-> FALSE]

mark_closing(g, c) == [g EXCEPT !.closing = @ \cup {c.id}]

(* ---- C strings: sequences of characters ("CR" and "LF" are \r and \n) ---- *)
NUL == "NUL"

ToLowerTable ==
  "A" :> "a" @@ "B" :> "b" @@ "C" :> "c" @@ "D" :> "d" @@ "E" :> "e" @@
  "F" :> "f" @@ "G" :> "g" @@ "H" :> "h" @@ "I" :> "i" @@ "J" :> "j" @@
  "K" :> "k" @@ "L" :> "l" @@ "M" :> "m" @@ "N" :> "n" @@ "O" :> "o" @@
  "P" :> "p" @@ "Q" :> "q" @@ "R" :> "r" @@ "S" :> "s" @@ "T" :> "t" @@
  "U" :> "u" @@ "V" :> "v" @@ "W" :> "w" @@ "X" :> "x" @@ "Y" :> "y" @@
  "Z" :> "z"

tolower(x) == IF x \in DOMAIN ToLowerTable THEN ToLowerTable[x] ELSE x

\* stricmp(a, b) == 0, and mg_vcasecmp(a, b) == 0
stricmp_eq(a, b) ==
  /\ Len(a) = Len(b)
  /\ \A i \in 1 .. Len(a) : tolower(a[i]) = tolower(b[i])

\* strrchr(str, x) != NULL
strrchr_found(str, x) == \E i \in 1 .. Len(str) : str[i] = x

\* strcpy(buf + off, str): the characters of str, then the terminating NUL.
strcpy(buf, off, str) ==
  [i \in 1 .. Len(buf) |->
     IF i > off /\ i <= off + Len(str) THEN str[i - off]
     ELSE IF i = off + Len(str) + 1 THEN NUL
     ELSE buf[i]]

\* The C string that starts at buf: the characters before the first NUL.
RECURSIVE c_str_from(_, _)
c_str_from(buf, i) ==
  IF i > Len(buf) \/ buf[i] = NUL THEN <<>>
  ELSE <<buf[i]>> \o c_str_from(buf, i + 1)

c_str(buf) == c_str_from(buf, 1)

CRLF == <<"CR", "LF">>

STR_CONTENT_TYPE ==
  <<"C", "o", "n", "t", "e", "n", "t", "-", "T", "y", "p", "e", ":", " ">>
STR_KEEP_ALIVE_HEADER ==
  <<"C", "o", "n", "n", "e", "c", "t", "i", "o", "n", ":", " ", "k", "e",
    "e", "p", "-", "a", "l", "i", "v", "e", "CR", "LF">>
STR_keep_alive ==
  <<"k", "e", "e", "p", "-", "a", "l", "i", "v", "e">>
STR_gzip ==
  <<"g", "z", "i", "p">>
STR_GET ==
  <<"G", "E", "T">>
STR_HEAD ==
  <<"H", "E", "A", "D">>
URI_ROOT ==
  <<"/">>
URI_ECHO ==
  <<"/", "e", "c", "h", "o">>
URI_RECEIVER_JSON ==
  <<"/", "d", "a", "t", "a", "/", "r", "e", "c", "e", "i", "v", "e", "r",
    ".", "j", "s", "o", "n">>
URI_DATA_JSON ==
  <<"/", "d", "a", "t", "a", ".", "j", "s", "o", "n">>
URI_AIRCRAFT_JSON ==
  <<"/", "d", "a", "t", "a", "/", "a", "i", "r", "c", "r", "a", "f", "t",
    ".", "j", "s", "o", "n">>
URI_CHUNKS_JSON ==
  <<"/", "c", "h", "u", "n", "k", "s", "/", "c", "h", "u", "n", "k", "s",
    ".", "j", "s", "o", "n">>
URI_FAVICON_PNG ==
  <<"/", "f", "a", "v", "i", "c", "o", "n", ".", "p", "n", "g">>
URI_FAVICON_ICO ==
  <<"/", "f", "a", "v", "i", "c", "o", "n", ".", "i", "c", "o">>
CORS_HEADER ==
  <<"A", "c", "c", "e", "s", "s", "-", "C", "o", "n", "t", "r", "o", "l",
    "-", "A", "l", "l", "o", "w", "-", "O", "r", "i", "g", "i", "n", ":",
    " ", "*", "CR", "LF">>
MODES_CONTENT_TYPE_JSON ==
  <<"C", "o", "n", "t", "e", "n", "t", "-", "T", "y", "p", "e", ":", " ",
    "a", "p", "p", "l", "i", "c", "a", "t", "i", "o", "n", "/", "j", "s",
    "o", "n">>
MODES_CONTENT_TYPE_PNG ==
  <<"i", "m", "a", "g", "e", "/", "p", "n", "g">>
MODES_CONTENT_TYPE_ICON ==
  <<"i", "m", "a", "g", "e", "/", "x", "-", "i", "c", "o", "n">>
HEADERS_SIZE == 200

(* ---- the HTTP handler ---- *)
\* The static buffer `headers` of set_headers is g.http.headers; a NULL
\* content_type is <<>>.  Returns [ret, g]: ret is the C string at
\* `headers` when the function returns.
set_headers(g, cli, content_type) ==
  LET b0 == [g.http.headers EXCEPT ![1] = NUL]
      b1 == IF content_type # <<>>
              THEN strcpy(strcpy(strcpy(b0, 0, STR_CONTENT_TYPE),
                                 0, content_type),
                          Len(STR_CONTENT_TYPE) + Len(content_type), CRLF)
              ELSE b0
      p  == IF content_type # <<>>
              THEN Len(STR_CONTENT_TYPE) + Len(content_type) + 2
              ELSE 0
      ka == g.http.keep_alive /\ cli.keep_alive
      b2 == IF ka THEN strcpy(b1, p, STR_KEEP_ALIVE_HEADER) ELSE b1
      g1 == [g EXCEPT !.http.headers = b2]
  IN  [ret |-> c_str(b2),
       g   |-> IF ka THEN [g1 EXCEPT !.stat.HTTP_keep_alive_sent = @ + 1]
                     ELSE g1]

\* What the reactor writes to connection c: the status code and the header
\* block after the status line.  "<Content-Length>" stands for the
\* Content-Length line with its CRLF.
reply(g, c, code, head) ==
  [g EXCEPT !.http.reply = [to |-> c.id, code |-> code, head |-> head]]

\* mg_http_reply (c, code, headers, fmt, ...)
mg_http_reply(g, c, code, headers) ==
  reply(g, c, code, headers \o <<"<Content-Length>">> \o CRLF)

\* mg_http_serve_file (c, hm, file, &opts)
mg_http_serve_file(g, c, found, extra_headers) ==
  IF found
    THEN reply(g, c, 200,
               <<"<Content-Type by file name>", "<Etag>", "<Content-Length>">>
                 \o extra_headers \o CRLF)
    ELSE mg_http_reply(g, c, 404, extra_headers)

send_favicon(g, c, cli, content_type) ==
  LET h == set_headers(g, cli, content_type) IN
  reply(h.g, c, 200, <<"<Content-Length>">> \o h.ret \o CRLF)

\* As net_handler_http_uri, but serving every URI with a dot as a file and
\* no other URI.
net_handler_http_uri_files_only(g, c, cli, uri, in) ==
  LET h == set_headers(g, cli, <<>>) IN
  IF strrchr_found(uri, ".")
    THEN [status |-> IF in.found THEN 200 ELSE 404,
          g |-> mg_http_serve_file(h.g, c, in.found, h.ret)]
    ELSE [status |-> 404, g |-> mg_http_reply(h.g, c, 404, h.ret)]

\* net_handler_http after the request headers were looked at: the dispatch
\* on the URI.  cli is the connection record.  Returns [status, g].
net_handler_http_uri(g, c, cli, uri, in) ==
  IF uri = URI_ROOT
    THEN [status |-> 301,
          g |-> reply(g, c, 301,
                      <<"<Location>", "<Content-Length>">> \o CRLF)]
  ELSE IF stricmp_eq(uri, URI_ECHO)
    THEN [status |-> 200, g |-> reply(g, c, 101, <<"<Upgrade>">> \o CRLF)]
  ELSE IF stricmp_eq(uri, URI_RECEIVER_JSON)
    THEN [status |-> 200,
          g |-> mg_http_reply(g, c, 200, MODES_CONTENT_TYPE_JSON \o CRLF)]
  ELSE
    LET is_dump1090 == stricmp_eq(uri, URI_DATA_JSON)
        is_extended == stricmp_eq(uri, URI_AIRCRAFT_JSON)
                         \/ stricmp_eq(uri, URI_CHUNKS_JSON)
    IN
    IF is_dump1090 \/ is_extended
      THEN IF ~in.alloc_ok
             THEN [status |-> 500,
                   g |-> [mark_closing(g, c)
                            EXCEPT !.stat.HTTP_500_responses = @ + 1]]
           ELSE IF is_extended
             THEN [status |-> 200,
                   g |-> mg_http_reply(g, c, 200, CORS_HEADER)]
           ELSE [status |-> 200,
                 g |-> mg_http_reply(g, c, 200,
                         CORS_HEADER \o MODES_CONTENT_TYPE_JSON \o CRLF)]
    ELSE IF strrchr_found(uri, ".")
      THEN IF stricmp_eq(uri, URI_FAVICON_PNG)
             THEN [status |-> 200,
                   g |-> send_favicon(g, c, cli, MODES_CONTENT_TYPE_PNG)]
           ELSE IF stricmp_eq(uri, URI_FAVICON_ICO)
             THEN [status |-> 200,
                   g |-> send_favicon(g, c, cli, MODES_CONTENT_TYPE_ICON)]
           ELSE
             LET h  == set_headers(g, cli, <<>>)
                 g1 == mg_http_serve_file(h.g, c, in.found, h.ret)
             IN  IF ~in.found
                   THEN [status |-> 404,
                         g |-> [g1 EXCEPT !.stat.HTTP_404_responses = @ + 1]]
                   ELSE [status |-> 200, g |-> g1]
    ELSE LET h == set_headers(g, cli, <<>>) IN
         [status |-> 404, g |-> mg_http_reply(h.g, c, 404, h.ret)]

\* net_handler_http after the check of the method: the lookup of the
\* record and the request headers.  Returns [status, g].
net_handler_http_get(g, c, hm, in) ==
    LET r == connection_get(g, c, MODES_NET_SERVICE_HTTP, FALSE) IN
    IF r.conn = NULL THEN [status |-> 505, g |-> r.g]
    ELSE
      LET i  == list_index_of(r.g.connections[MODES_NET_SERVICE_HTTP],
                              r.conn, 1)
          g1 == [r.g EXCEPT !.stat.HTTP_get_requests = @ + 1]
          g2 == IF hm.connection # <<>>
                     /\ stricmp_eq(hm.connection, STR_keep_alive)
                  THEN [g1 EXCEPT
                          !.stat.HTTP_keep_alive_recv = @ + 1,
                          !.connections[MODES_NET_SERVICE_HTTP][i].keep_alive
                             = TRUE]
                  ELSE g1
          g3 == IF hm.accept_encoding # <<>>
                     /\ stricmp_eq(hm.accept_encoding, STR_gzip)
                  THEN [g2 EXCEPT
                          !.connections[MODES_NET_SERVICE_HTTP][i]
                             .encoding_gzip = TRUE]
                  ELSE g2
      IN  net_handler_http_uri(g3, c,
                               g3.connections[MODES_NET_SERVICE_HTTP][i],
                               hm.uri, in)

\* As net_handler_http, but without the check of the method.
net_handler_http_any_method(g, c, hm, in) == net_handler_http_get(g, c, hm, in)

\* hm: the request: method, uri and the values of its Connection and
\* Accept-Encoding headers (<<>> when the header is absent).
\* Returns [status, g].
net_handler_http(g, c, hm, in) ==
  LET is_GET  == stricmp_eq(hm.method, STR_GET)
      is_HEAD == stricmp_eq(hm.method, STR_HEAD)
  IN
  IF ~is_GET /\ ~is_HEAD
    THEN [status |-> 400, g |-> [g EXCEPT !.stat.HTTP_400_responses = @ + 1]]
    ELSE net_handler_http_get(g, c, hm, in)

(* ---- net_connection_recv and the frame handlers ---- *)
\* The bytes of a stream: "x" is a byte of a record, END the terminator of
\* the service's framing.
END == "END"

RECURSIVE first_END(_, _)
first_END(msg, i) ==
  IF i > Len(msg) THEN 0
  ELSE IF msg[i] = END THEN i
  ELSE first_END(msg, i + 1)

\* decode_RAW_message and decode_SBS_message: a record that is complete is
\* parsed and taken out of `msg`.  Bytes without a terminator are left to
\* accumulate when `keeps`, and are dropped otherwise.  Returns the
\* buffer after the call and the record parsed.
decode_message(msg, loop_cnt, keeps) ==
  LET k == first_END(msg, 1) IN
  IF k # 0
    THEN [msg |-> SubSeq(msg, k + 1, Len(msg)), record |-> SubSeq(msg, 1, k)]
  ELSE IF keeps THEN [msg |-> msg, record |-> <<>>]
  ELSE [msg |-> <<>>, record |-> <<>>]

\* One pass of the loop: the call of the handler is noted in rx.calls.
recv_call(g, c, loops, is_server, keeps) ==
  LET h == decode_message(g.rx.buf[c], loops, keeps) IN
  [g EXCEPT !.rx.buf[c] = h.msg,
            !.rx.calls = Append(@, [is_server |-> is_server,
                                    loops |-> loops,
                                    msg |-> g.rx.buf[c],
                                    record |-> h.record])]

\* As recv_loop, but with one call of the handler only.
recv_loop_once(g, c, loops, is_server, keeps) ==
  recv_call(g, c, loops, is_server, keeps)

\* for (loops = 0; msg->len > 0; loops++) (*handler) (msg, loops);
\* A handler that takes nothing out of the buffer is called for ever.
RECURSIVE recv_loop(_, _, _, _, _)
recv_loop(g, c, loops, is_server, keeps) ==
  IF Len(g.rx.buf[c]) = 0 THEN g
  ELSE
    LET g1 == recv_call(g, c, loops, is_server, keeps) IN
    IF Len(g1.rx.buf[c]) = Len(g.rx.buf[c])
      THEN [g1 EXCEPT !.rx.spin = TRUE]
      ELSE recv_loop(g1, c, loops + 1, is_server, keeps)

\* conn is the record's identity, NULL when connection_get found none.
net_connection_recv(g, conn, service, is_server, keeps) ==
  IF conn = NULL THEN g
  ELSE
    LET list == g.connections[service]
        msg  == list[list_index_of(list, conn, 1)].c
    IN  IF Len(g.rx.buf[msg]) = 0 THEN g
        ELSE recv_loop(g, msg, 0, is_server, keeps)

RxInit ==
  [buf |-> [id \in Ids |-> <<>>], calls |-> <<>>, spin |-> FALSE]

(* ---- net_handler: the event handler for all network I/O ---- *)
\* in: the inputs of one callback: bytes (ev_data of Read/Write),
\* alloc_ok (calloc), realloc_ok (realloc), uaf (see read_is_accepted),
\* keeps (see decode_message).
net_handler_events(g, m, c, ev, service, in) ==
  IF ev = "MG_EV_POLL" \/ ev = "MG_EV_OPEN" THEN g
  ELSE IF ev = "MG_EV_ERROR" THEN
    IF service >= MODES_NET_SERVICE_FIRST /\ service <= MODES_NET_SERVICE_LAST
      THEN IF c.is_accepted
             THEN connection_failed_accepted(g, m, c, service, in.uaf)
             ELSE \* `remote` is the host[] array of the service: never NULL
                  modeS_signal_handler(
                    mg_timer_free(connection_failed_active(g, c, service),
                                  service))
      ELSE g
  ELSE IF ev = "MG_EV_RESOLVE" THEN g
  ELSE IF ev = "MG_EV_CONNECT" THEN
    LET g1 == mg_timer_free(g, service) IN
    IF ~in.alloc_ok THEN mark_closing(g1, c)
    ELSE
      LET g2 == [g1 EXCEPT !.connections[service] =
                   LIST_ADD_TAIL(@, new_connection(c, service))]
          g3 == net_num_connections_inc(g2, service)
      IN  [g3 EXCEPT !.stat.srv_connected = Bump(@, service)]
  ELSE IF ev = "MG_EV_ACCEPT" THEN
    LET h == client_handler(g, c, service, "MG_EV_ACCEPT", in.realloc_ok) IN
    IF ~h.ret THEN mark_closing(h.g, c)
    ELSE IF ~in.alloc_ok THEN mark_closing(h.g, c)
    ELSE
      LET g2 == [h.g EXCEPT !.connections[service] =
                   LIST_ADD_TAIL(@, new_connection(c, service))]
          g3 == net_num_connections_inc(g2, service)
      IN  [g3 EXCEPT !.stat.cli_accepted = Bump(@, service)]
  ELSE IF ev = "MG_EV_READ" THEN
    LET g1 == [g EXCEPT !.stat.bytes_recv[service] = @ + in.bytes] IN
    IF service = MODES_NET_SERVICE_RAW_IN
      THEN LET r1 == connection_get(g1, c, service, FALSE)
               g2 == net_connection_recv(r1.g, r1.conn, service, FALSE,
                                         in.keeps)
               r2 == connection_get(g2, c, service, TRUE)
           IN  IF g2.rx.spin THEN g2
               ELSE net_connection_recv(r2.g, r2.conn, service, TRUE,
                                        in.keeps)
    ELSE IF service = MODES_NET_SERVICE_SBS_IN
      THEN LET r == connection_get(g1, c, service, TRUE) IN
           net_connection_recv(r.g, r.conn, service, TRUE, in.keeps)
    ELSE g1
  ELSE IF ev = "MG_EV_WRITE" THEN
    [g EXCEPT !.stat.bytes_sent[service] = @ + in.bytes]
  ELSE IF ev = "MG_EV_CLOSE" THEN
    LET h  == client_handler(g, c, service, "MG_EV_CLOSE", in.realloc_ok)
        r1 == connection_get(h.g, c, service, FALSE)
        g1 == net_conn_free(r1.g, m, r1.conn, service, in.uaf)
        r2 == connection_get(g1, c, service, TRUE)
        g2 == net_conn_free(r2.g, m, r2.conn, service, in.uaf)
    IN  net_num_connections_dec(g2, service)
  ELSE IF service = MODES_NET_SERVICE_HTTP /\ ev = "MG_EV_HTTP_MSG" THEN
    LET r == net_handler_http(g, c, in.hm, in) IN
    [r.g EXCEPT !.http.status = r.status]
  ELSE g

net_handler_no_exit_check(g, m, c, ev, service, in) ==
  net_handler_events(g, m, c, ev, service, in)

net_handler(g, m, c, ev, service, in) ==
  IF g.exit THEN g
  ELSE net_handler_events(g, m, c, ev, service, in)

(* ---- net_timeout: the timer callback of an active connect ---- *)
\* As net_timeout, but without the signal to the main loop.
net_timeout_no_signal(g, service) ==
  net_store_error(g, service,
    <<"Timeout in connection to host ", net_service_url(service),
      " (service: \"", net_service_descr(service), "\")">>)

net_timeout(g, service) ==
  modeS_signal_handler(
    net_store_error(g, service,
      <<"Timeout in connection to host ", net_service_url(service),
        " (service: \"", net_service_descr(service), "\")">>))

(* ---- net_connection_send ---- *)
\* The mg_connections the loop calls mg_send() on, in the order of the calls.
\* As net_connection_send_visits, but leaving the loop after the first
\* record.
net_connection_send_visits_first_only(list, i, service) ==
  IF i > Len(list) \/ list[i].service # service THEN <<>> ELSE <<list[i].c>>

RECURSIVE net_connection_send_visits(_, _, _)
net_connection_send_visits(list, i, service) ==
  IF i > Len(list) THEN <<>>
  ELSE IF list[i].service # service
    THEN net_connection_send_visits(list, i + 1, service)
    ELSE <<list[i].c>> \o net_connection_send_visits(list, i + 1, service)

RECURSIVE mg_send_all(_, _, _)
mg_send_all(q, cs, msg) ==
  IF cs = <<>> THEN q
  ELSE mg_send_all([q EXCEPT ![Head(cs)] = Append(@, msg)], Tail(cs), msg)

\* q is send_q, the result is send_q after the call.
net_connection_send(g, service, msg, q) ==
  mg_send_all(q, net_connection_send_visits(g.connections[service], 1, service),
              msg)

(* ---- net_conn_free_all and net_exit ---- *)
\* As net_conn_free_list, but ending the loop after the first record.
net_conn_free_list_first_only(g, m, service, ids, uaf) ==
  IF ids = <<>> THEN g ELSE net_conn_free(g, m, Head(ids), service, uaf)

\* The inner loop: conn_next is read before the record is freed.
RECURSIVE net_conn_free_list(_, _, _, _, _)
net_conn_free_list(g, m, service, ids, uaf) ==
  IF ids = <<>> THEN g
  ELSE net_conn_free_list(net_conn_free(g, m, Head(ids), service, uaf),
                          m, service, Tail(ids), uaf)

ListIds(list) == [k \in 1 .. Len(list) |-> list[k].id]

\* Returns [num, g].
RECURSIVE net_conn_free_all_from(_, _, _, _, _)
net_conn_free_all_from(g, m, service, num, uaf) ==
  IF service > MODES_NET_SERVICE_LAST THEN [num |-> num, g |-> g]
  ELSE
    LET ids == ListIds(g.connections[service]) IN
    net_conn_free_all_from(net_conn_free_list(g, m, service, ids, uaf),
                           m, service + 1, num + Len(ids), uaf)

net_conn_free_all(g, m, uaf) ==
  net_conn_free_all_from(g, m, MODES_NET_SERVICE_FIRST, 0, uaf)

\* Returns [ret, g].
net_exit(g, m, uaf) ==
  LET r == net_conn_free_all(g, m, uaf) IN [ret |-> r.num > 0, g |-> r.g]

(* ---- the reactor (Mongoose): connections and the events it delivers ---- *)
NoAddr == [ip |-> <<0, 0, 0, 0>>, port |-> 0, is_ip6 |-> FALSE]
NoConn == [state |-> "none", service |-> 0, rem |-> NoAddr,
           is_accepted |-> FALSE]
\* The address an active connect resolves its host to.
ServerAddr == Extern

Live(id) == mgr[id].state \in {"connecting", "open", "error"}

\* The mg_connection handed to the callback.
Conn(m, id) == [id |-> id, rem |-> m[id].rem, is_accepted |-> m[id].is_accepted]

\* Records whose mg_connection the reactor has freed.
Dangling(conns, m) ==
  {id \in Ids : \E s \in Services : \E k \in 1 .. Len(conns[s]) :
                   conns[s][k].id = id /\ m[conns[s][k].c].state = "freed"}

UafChoices(conns, m) ==
  {f \in [Ids -> BOOLEAN] : \A id \in Ids : f[id] => id \in Dangling(conns, m)}

ReallocChoices ==
  IF Len(g_unique_ips.ips) >= g_unique_ips.size THEN BOOLEAN ELSE {TRUE}

Inputs(bytes, alloc_ok, realloc_ok, uaf) ==
  [bytes |-> bytes, alloc_ok |-> alloc_ok, realloc_ok |-> realloc_ok,
   uaf |-> uaf]

\* One callback: the reactor calls net_handler on connection `id` with the
\* table `m` it has at that moment, and is left with the table `m1`.
Deliver(m, m1, id, ev, bytes, alloc_ok) ==
  /\ \E realloc_ok \in ReallocChoices : \E uaf \in UafChoices(connections, m) :
       Install(net_handler(Globals, m, Conn(m, id), ev, m[id].service,
                           Inputs(bytes, alloc_ok, realloc_ok, uaf)))
  /\ mgr' = m1

(* ---- the deny-list test of the configuration file (src/cfg_file.c) ---- *)
Digits == {"0", "1", "2", "3", "4", "5", "6", "7", "8", "9"}

\* The first index from i on that holds no digit.
RECURSIVE skip_digits(_, _)
skip_digits(str, i) ==
  IF i <= Len(str) /\ str[i] \in Digits THEN skip_digits(str, i + 1) ELSE i

\* The conversion %d at index i: the index behind the number, 0 when there
\* is no number.
scan_d(str, i) ==
  LET j == IF i <= Len(str) /\ str[i] \in {"+", "-"} THEN i + 1 ELSE i
      k == skip_digits(str, j)
  IN  IF k = j THEN 0 ELSE k

\* sscanf (str, "%d.%d.%d.%d", ...) from index i with n conversions done:
\* the number of conversions.
RECURSIVE sscanf_d4(_, _, _)
sscanf_d4(str, i, n) ==
  LET k == scan_d(str, i) IN
  IF k = 0 THEN n
  ELSE IF n + 1 = 4 THEN 4
  ELSE IF k <= Len(str) /\ str[k] = "." THEN sscanf_d4(str, k + 1, n + 1)
  ELSE n + 1

\* strrchr (str, x): the last index of x, 0 when there is none.
RECURSIVE strrchr(_, _, _)
strrchr(str, x, i) ==
  IF i = 0 THEN 0
  ELSE IF str[i] = x THEN i
  ELSE strrchr(str, x, i - 1)

\* As deny4_expand, but with one zero octet whatever the count.
deny4_expand_one(spec, slash, rc) ==
  SubSeq(spec, 1, slash - 1) \o <<".", "0", "/">>
    \o SubSeq(spec, slash + 1, Len(spec))

\* The three snprintf calls on spec2, which starts as "-".
deny4_expand(spec, slash, rc) ==
  LET head == SubSeq(spec, 1, slash - 1)
      bits == SubSeq(spec, slash + 1, Len(spec))
  IN  IF rc = 1
        THEN head \o <<".", "0", ".", "0", ".", "0", "/">> \o bits
      ELSE IF rc = 2
        THEN head \o <<".", "0", ".", "0", "/">> \o bits
      ELSE IF rc = 3
        THEN head \o <<".", "0", "/">> \o bits
      ELSE <<"-">>

\* value: the two tokens of the line, ip_ok (mg_aton took the first) and
\* spec (<<>> when there is no second token).  The result holds the spec
\* handed to mg_check_ip_acl, when that is called.
handle_deny4_test(g, value) ==
  IF ~value.ip_ok \/ value.spec = <<>>
    THEN [g EXCEPT !.deny4 = [value |-> value, checked |-> FALSE,
                              spec |-> <<>>]]
  ELSE
    LET spec  == value.spec
        slash == strrchr(spec, "/", Len(spec))
        rc    == sscanf_d4(spec, 1, 0)
    IN  [g EXCEPT !.deny4 =
           [value |-> value, checked |-> TRUE,
            spec  |-> IF slash # 0 /\ rc < 4
                        THEN deny4_expand(spec, slash, rc)
                        ELSE spec]]

Deny4Init ==
  [value |-> [ip_ok |-> FALSE, spec |-> <<>>], checked |-> FALSE,
   spec |-> <<>>]

(* ---- the config-file parser (src/cfg_file.c) ---- *)
\* Body(value), with the value computed once.
Bind(value, Body(_)) == CHOOSE r \in {Body(v) : v \in {value}} : TRUE

\* A 64-bit value is four 16-bit limbs, the most significant first.
U64_0 == <<0, 0, 0, 0>>

UCHAR_MAX_64 == <<0, 0, 0, 255>>

USHRT_MAX_64 == <<0, 0, 0, 65535>>

UINT32_MAX_64 == <<0, 0, 65535, 65535>>

UINT64_MAX_64 == <<65535, 65535, 65535, 65535>>

\* a < b and a > b on uint64_t
lt64(a, b) ==
  \E i \in 1 .. 4 : a[i] < b[i] /\ \A j \in 1 .. i - 1 : a[j] = b[j]

gt64(a, b) == lt64(b, a)

\* -a on uint64_t: the complement plus one.
neg64(a) ==
  LET LIMB == 65536
      n(i) == (LIMB - 1) - a[i]
      c4 == n(4) + 1
      c3 == n(3) + (c4 \div LIMB)
      c2 == n(2) + (c3 \div LIMB)
      c1 == n(1) + (c2 \div LIMB)
  IN  <<c1 % LIMB, c2 % LIMB, c3 % LIMB, c4 % LIMB>>

\* sscanf (value, "%lld", &val) with `uint64_t val`: the conversion stores
\* a long long in the 8 bytes of val.  num is the decimal of the text:
\* ok (there is one), neg (its sign) and mag (its magnitude).
sscanf_lld(num) == IF num.neg THEN neg64(num.mag) ELSE num.mag

\* RANGE_CHECK (val, low, high): true when the macro makes the function
\* return false.  val is a uint64_t, so that `low` and `high` are converted
\* to uint64_t for the comparisons.
RANGE_CHECK(val, low, high) == lt64(val, low) \/ gt64(val, high)

\* The casts (uint8_t) val, (uint16_t) val, (uint32_t) val, kept as 64-bit
\* values.
cast_u8(val) == <<0, 0, 0, val[4] % 256>>

cast_u16(val) == <<0, 0, 0, val[4]>>

cast_u32(val) == <<0, 0, val[3], val[4]>>

\* parse_and_set_value (key, value, arg, size): the value returned and the
\* bytes of *arg afterwards (`target` before).  value.truth says which of
\* the words for a bool the text is, value.num which decimal.
parse_and_set_value(value, target, size) ==
  IF size = -1 THEN
    IF value.truth = "true" THEN [ret |-> TRUE, target |-> <<0, 0, 0, 1>>]
    ELSE IF value.truth = "false" THEN [ret |-> TRUE, target |-> U64_0]
    ELSE [ret |-> FALSE, target |-> target]
  ELSE IF ~value.num.ok THEN [ret |-> FALSE, target |-> target]
  ELSE
    LET val == sscanf_lld(value.num) IN
    CASE size = 1 ->
           IF RANGE_CHECK(val, U64_0, UCHAR_MAX_64)
           THEN [ret |-> FALSE, target |-> target]
           ELSE [ret |-> TRUE, target |-> cast_u8(val)]
      [] size = 2 ->
           IF RANGE_CHECK(val, U64_0, USHRT_MAX_64)
           THEN [ret |-> FALSE, target |-> target]
           ELSE [ret |-> TRUE, target |-> cast_u16(val)]
      [] size = 4 ->
           IF RANGE_CHECK(val, U64_0, UINT32_MAX_64)
           THEN [ret |-> FALSE, target |-> target]
           ELSE [ret |-> TRUE, target |-> cast_u32(val)]
      [] size = 8 ->
           IF RANGE_CHECK(val, U64_0, UINT64_MAX_64)
           THEN [ret |-> FALSE, target |-> target]
           ELSE [ret |-> TRUE, target |-> val]
      [] OTHER -> [ret |-> TRUE, target |-> cast_u32(val)]

\* sizeof of the target of each table type; -1 stands for a bool.
SizeOfType(type) ==
  CASE type = "ARG_ATOB"    -> -1
    [] type = "ARG_ATOI"    -> 4
    [] type = "ARG_ATO_U8"  -> 1
    [] type = "ARG_ATO_U16" -> 2
    [] type = "ARG_ATO_U32" -> 4
    [] type = "ARG_ATO_U64" -> 8

\* The table `internals`, and a table of the caller with one key of each
\* numeric type.
internals ==
  <<[key |-> "include",           type |-> "ARG_FUNC", arg_func |-> "handle_include"],
    [key |-> "message",           type |-> "ARG_FUNC", arg_func |-> "handle_message"],
    [key |-> "internal.ip4_test", type |-> "ARG_FUNC", arg_func |-> "handle_ipv4_test"],
    [key |-> "internal.ip6_test", type |-> "ARG_FUNC", arg_func |-> "handle_ipv6_test"],
    [key |-> "internal.deny4",    type |-> "ARG_FUNC", arg_func |-> "handle_deny4_test"]>>

ExternalTable ==
  <<[key |-> "flag", type |-> "ARG_ATOB",    arg_func |-> "flag"],
    [key |-> "int",  type |-> "ARG_ATOI",    arg_func |-> "int"],
    [key |-> "u8",   type |-> "ARG_ATO_U8",  arg_func |-> "u8"],
    [key |-> "u16",  type |-> "ARG_ATO_U16", arg_func |-> "u16"],
    [key |-> "u32",  type |-> "ARG_ATO_U32", arg_func |-> "u32"],
    [key |-> "u64",  type |-> "ARG_ATO_U64", arg_func |-> "u64"]>>

ExternalKeys == {ExternalTable[i].key : i \in 1 .. Len(ExternalTable)}

\* DIM (g_ctx)
DIM_g_ctx == 4

\* A context after memset (ctx, '\0', sizeof(*ctx)).  pos, rc, stage, key
\* and value are the position in ctx->file and the locals of
\* cfg_parse_file and cfg_parse_internals for this context: the lines read
\* so far, the count of lines that matched, which of cfg_parse_internals
\* ("internals") and cfg_parse_table ("table") a nested call came from,
\* and the line being handled.
NoValue ==
  [file |-> "", optional |-> FALSE, truth |-> "other",
   num |-> [ok |-> FALSE, neg |-> FALSE, mag |-> U64_0]]

ctx_zero ==
  [table |-> <<>>, file |-> "", current_file |-> "", current_line |-> 0,
   pos |-> 0, rc |-> 0, stage |-> "", old |-> <<>>, key |-> "",
   value |-> NoValue]

\* The parser before cfg_open_and_parse is called: no file system chosen
\* yet, the targets of the caller's table zero.
CfgIdle ==
  [pc |-> "idle", fs |-> <<>>, unreadable |-> {},
   g_ctx |-> [i \in 1 .. DIM_g_ctx |-> ctx_zero], g_idx |-> 0,
   ret |-> FALSE, targets |-> [k \in ExternalKeys |-> U64_0],
   warnings |-> <<>>, last |-> [key |-> "", value |-> NoValue, depth |-> 0,
                                ret |-> FALSE]]

\* cfg_current_file()
cfg_current_file(c) ==
  IF c.g_idx > 0 THEN c.g_ctx[c.g_idx].current_file ELSE ""

\* CFG_WARN (fmt, ...)
CFG_WARN(c, what) ==
  [c EXCEPT !.warnings = Append(@, [what |-> what,
                                    file |-> cfg_current_file(c)])]

\* The first entry of `table` with the key, 0 when there is none.
table_find(table, key) ==
  IF \E i \in 1 .. Len(table) : table[i].key = key
  THEN CHOOSE i \in 1 .. Len(table) :
         /\ table[i].key = key
         /\ \A j \in 1 .. i - 1 : table[j].key # key
  ELSE 0

\* stat (name, &st) == 0 && S_ISREG, and fopen (name, "rb") != NULL.
is_regular(c, name) == name \in DOMAIN c.fs

can_open(c, name) == name \in DOMAIN c.fs /\ name \notin c.unreadable

\* cfg_open_and_parse (fname, table) up to its call of cfg_parse_file:
\* `called` says whether that call is made, ret is the value returned when
\* it is not.
cfg_open_and_parse_no_restore(c, fname, table) ==
  IF c.g_idx = DIM_g_ctx
  THEN [c |-> CFG_WARN(c, "Too many nested include files"),
        called |-> FALSE, ret |-> (table = internals)]
  ELSE
    Bind([c EXCEPT !.g_ctx[c.g_idx + 1].current_file = fname], LAMBDA c1 :
    IF ~can_open(c, fname)
    THEN [c |-> CFG_WARN([c1 EXCEPT !.g_idx = @ + 1], "Failed to open"),
          called |-> FALSE, ret |-> (table = internals)]
    ELSE [c |-> [c1 EXCEPT !.g_ctx[c.g_idx + 1].table = table,
                           !.g_ctx[c.g_idx + 1].file = fname,
                           !.g_ctx[c.g_idx + 1].pos = 1,
                           !.g_idx = @ + 1],
          called |-> TRUE, ret |-> FALSE])

cfg_open_and_parse(c, fname, table) ==
  IF c.g_idx = DIM_g_ctx
  THEN [c |-> CFG_WARN(c, "Too many nested include files"),
        called |-> FALSE, ret |-> (table = internals)]
  ELSE
    Bind([c EXCEPT !.g_ctx[c.g_idx + 1].current_file = fname], LAMBDA c1 :
    IF ~can_open(c, fname)
    THEN [c |-> [CFG_WARN([c1 EXCEPT !.g_idx = @ + 1], "Failed to open")
                   EXCEPT !.g_idx = @ - 1],
          called |-> FALSE, ret |-> (table = internals)]
    ELSE [c |-> [c1 EXCEPT !.g_ctx[c.g_idx + 1].table = table,
                           !.g_ctx[c.g_idx + 1].file = fname,
                           !.g_ctx[c.g_idx + 1].pos = 1,
                           !.g_idx = @ + 1],
          called |-> TRUE, ret |-> FALSE])

\* handle_include (value)
handle_include(c, value) ==
  IF ~value.optional /\ ~is_regular(c, value.file)
  THEN [c |-> CFG_WARN(c, "include-file does not exist"),
        called |-> FALSE, ret |-> TRUE]
  ELSE IF value.optional /\ ~is_regular(c, value.file)
  THEN [c |-> CFG_WARN(c, "Ignoring include-file not found"),
        called |-> FALSE, ret |-> TRUE]
  ELSE cfg_open_and_parse(c, value.file, c.g_ctx[c.g_idx].table)

\* cfg_parse_table (ctx, key, value, is_internal) for the context on top:
\* the first entry of ctx->table with the key is applied.  `called` says
\* that handle_include has called cfg_open_and_parse and that
\* cfg_parse_file is to run on the new context; ret is the value returned
\* otherwise.  The callbacks other than handle_include print and return
\* true.
cfg_parse_table(c, key, value) ==
  LET ctx == c.g_ctx[c.g_idx]
      i   == table_find(ctx.table, key)
  IN  IF i = 0
      THEN [c |-> IF ctx.table # internals
                  THEN CFG_WARN(c, "Unknown key/value") ELSE c,
            called |-> FALSE, ret |-> FALSE]
      ELSE IF ctx.table[i].type = "ARG_FUNC"
      THEN IF ctx.table[i].arg_func = "handle_include"
           THEN handle_include(c, value)
           ELSE [c |-> c, called |-> FALSE, ret |-> TRUE]
      ELSE LET arg == ctx.table[i].arg_func IN
           Bind(parse_and_set_value(value, c.targets[arg],
                                    SizeOfType(ctx.table[i].type)), LAMBDA r :
           Bind([c EXCEPT !.targets[arg] = r.target], LAMBDA c1 :
             [c |-> IF r.ret THEN c1
                    ELSE CFG_WARN(c1, "failed to match or out of range"),
              called |-> FALSE, ret |-> r.ret]))

\* cfg_parse_internals (ctx, key, value) for the line of the context on
\* top; ctx->table is `internals` during the call of cfg_parse_table, and
\* is restored when that returns.
cfg_parse_internals(c) ==
  LET ctx == c.g_ctx[c.g_idx] IN
  Bind([c EXCEPT !.g_ctx[c.g_idx].old = ctx.table,
                 !.g_ctx[c.g_idx].table = internals], LAMBDA c1 :
  Bind(cfg_parse_table(c1, ctx.key, ctx.value), LAMBDA r :
    IF r.called
    THEN [r EXCEPT !.c.g_ctx[c.g_idx].stage = "internals"]
    ELSE [r EXCEPT !.c.g_ctx[c.g_idx].table = ctx.table]))

\* The end of one pass of the loop of cfg_parse_file: rc++ when the line
\* matched.  c.last keeps the line and what its handling returned.
cfg_line_done(c, ret) ==
  LET ctx == c.g_ctx[c.g_idx] IN
  [c EXCEPT !.g_ctx[c.g_idx].rc = IF ret THEN @ + 1 ELSE @,
            !.g_ctx[c.g_idx].stage = "",
            !.last = [key |-> ctx.key, value |-> ctx.value,
                      depth |-> c.g_idx, ret |-> ret]]

\* cfg_parse_file once cfg_parse_internals has returned `ret`: the call of
\* cfg_parse_table on ctx->table when the line was no internal one.
cfg_parse_file_table(c, ret) ==
  IF ret THEN cfg_line_done(c, TRUE)
  ELSE LET ctx == c.g_ctx[c.g_idx] IN
       Bind(cfg_parse_table(c, ctx.key, ctx.value), LAMBDA r :
         IF r.called
         THEN [r.c EXCEPT !.g_ctx[c.g_idx].stage = "table"]
         ELSE cfg_line_done(r.c, r.ret))

\* The end of cfg_open_and_parse, when cfg_parse_file has returned rc:
\* fclose, g_idx--, memset and `return (rc > 0)`; the value goes to main or,
\* through handle_include and cfg_parse_table, to the pass of
\* cfg_parse_file that handles the include line.
cfg_open_and_parse_return(c) ==
  LET ret == c.g_ctx[c.g_idx].rc > 0 IN
  Bind([c EXCEPT !.g_ctx[c.g_idx] = ctx_zero, !.g_idx = @ - 1], LAMBDA c1 :
    IF c1.g_idx = 0 THEN [c1 EXCEPT !.pc = "done", !.ret = ret]
    ELSE LET ctx == c1.g_ctx[c1.g_idx] IN
         IF ctx.stage = "internals"
         THEN Bind([c1 EXCEPT !.g_ctx[c1.g_idx].table = ctx.old], LAMBDA c2 :
                cfg_parse_file_table(c2, ret))
         ELSE cfg_line_done(c1, ret))

\* One pass of the loop of cfg_parse_file for the context on top, up to
\* the next pass or to the first pass on a context opened by an include
\* line; at the end of the file, the return from cfg_open_and_parse.  A
\* line without a key stands for a comment, an empty line or a line that
\* sscanf does not match.  cfg_getenv_expand is left out: the values hold
\* no '%' and name no environment variable.
cfg_parse_file(c) ==
  LET ctx   == c.g_ctx[c.g_idx]
      lines == c.fs[ctx.file]
  IN  IF ctx.pos > Len(lines) THEN cfg_open_and_parse_return(c)
      ELSE
        LET line == lines[ctx.pos] IN
        Bind([c EXCEPT !.g_ctx[c.g_idx].pos = @ + 1,
                       !.g_ctx[c.g_idx].current_line = @ + 1,
                       !.g_ctx[c.g_idx].key = line.key,
                       !.g_ctx[c.g_idx].value = line.value], LAMBDA c1 :
          IF line.key = "" \/ line.value = NoValue THEN c1
          ELSE Bind(cfg_parse_internals(c1), LAMBDA r :
                 IF r.called THEN r.c
                 ELSE Bind(r.c, LAMBDA c2 : cfg_parse_file_table(c2, r.ret))))

(* ---- net_init: the listeners and the active connections ---- *)
\* The ports of the service table; each is configurable.
net_handler_port(service) ==
  CASE service = MODES_NET_SERVICE_RAW_OUT -> "MODES_NET_PORT_RAW_OUT"
    [] service = MODES_NET_SERVICE_RAW_IN  -> "MODES_NET_PORT_RAW_IN"
    [] service = MODES_NET_SERVICE_SBS_OUT -> "MODES_NET_PORT_SBS"
    [] service = MODES_NET_SERVICE_SBS_IN  -> "MODES_NET_PORT_SBS"
    [] service = MODES_NET_SERVICE_HTTP    -> "MODES_NET_PORT_HTTP"

\* The column `protocol` of the service table, after net_init has renamed
\* the one of a raw input service over UDP.
net_handler_protocol(udp, service) ==
  IF service = MODES_NET_SERVICE_RAW_IN /\ udp[MODES_NET_SERVICE_RAW_IN]
    THEN "udp" ELSE "tcp"

\* The url of a listener.
listen_url(udp, service) ==
  <<net_handler_protocol(udp, service), "://", "0.0.0.0", ":",
    net_handler_port(service)>>

\* st is [g, m, next_id]: the globals and the reactor's connections.  ok is
\* whether mg_listen() or mg_connect() gives a connection.  Returns st and
\* c, NULL or not.  The hosts are IPv4, so is_ip6 is false.
connection_setup(st, udp, service, listen, ok) ==
  LET allow_udp == (service = MODES_NET_SERVICE_RAW_IN)
      use_udp   == udp[service]
  IN
  IF use_udp /\ ~allow_udp THEN [c |-> FALSE, st |-> st]
  ELSE IF listen
    THEN [c  |-> ok,
          st |-> IF ok
                   THEN [st EXCEPT !.g.init.listeners[service] =
                                      listen_url(udp, service)]
                   ELSE st]
  ELSE
    LET timeout == IF udp[service] THEN -1 ELSE 5
        g1 == IF timeout > 0
                THEN [st.g EXCEPT !.timer[service] = "armed"]
                ELSE st.g
    IN  [c  |-> ok,
         st |-> IF ok
                  THEN [g |-> g1,
                        m |-> [st.m EXCEPT ![st.next_id] =
                                 [state |-> "connecting", service |-> service,
                                  rem |-> ServerAddr, is_accepted |-> FALSE]],
                        next_id |-> st.next_id + 1]
                  ELSE [st EXCEPT !.g = g1]]

\* The service whose set-up returned NULL is remembered in init.failed.
setup_failed(st, service) ==
  [st EXCEPT !.g.init.failed = @ \cup {service}]

\* Returns [ret, st].
connection_setup_active(st, udp, service, ok) ==
  LET r == connection_setup(st, udp, service, FALSE, ok) IN
  IF ~r.c THEN [ret |-> FALSE, st |-> setup_failed(r.st, service)]
          ELSE [ret |-> TRUE, st |-> r.st]

\* As connection_setup_listen, but taking every listener for set up.
connection_setup_listen_always(st, udp, service, ok) ==
  [ret |-> TRUE, st |-> connection_setup(st, udp, service, TRUE, ok).st]

connection_setup_listen(st, udp, service, ok) ==
  LET r == connection_setup(st, udp, service, TRUE, ok) IN
  IF ~r.c THEN [ret |-> FALSE, st |-> setup_failed(r.st, service)]
          ELSE [ret |-> TRUE, st |-> r.st]

\* The calls of net_init in passive mode, in their order.
ListenOrder ==
  <<MODES_NET_SERVICE_RAW_IN, MODES_NET_SERVICE_RAW_OUT,
    MODES_NET_SERVICE_SBS_OUT, MODES_NET_SERVICE_HTTP>>

\* The calls of net_init in --net-active mode, in their order.
ActiveOrder == <<MODES_NET_SERVICE_RAW_IN, MODES_NET_SERVICE_SBS_IN>>

\* net_init from its first connection_setup call on: each call in turn,
\* until one fails.  Returns [ret, st].
RECURSIVE net_init_setup(_, _, _, _, _, _)
net_init_setup(st, udp, active, order, i, in) ==
  IF i > Len(order) THEN [ret |-> TRUE, st |-> st]
  ELSE
    LET service == order[i] IN
    IF active /\ service \notin st.g.init.host
      THEN net_init_setup(st, udp, active, order, i + 1, in)
    ELSE
      LET r == IF active
                 THEN connection_setup_active(st, udp, service,
                                              in.setup_ok[service])
                 ELSE connection_setup_listen(st, udp, service,
                                              in.setup_ok[service])
      IN  IF ~r.ret THEN r
          ELSE net_init_setup(r.st, udp, active, order, i + 1, in)

\* The packed web page: fine when no DLL is used, else when the DLL holds
\* files, an index.html among them (in.packed_ok).
check_packed_web_page(use_packed_dll, in) ==
  IF ~use_packed_dll THEN TRUE ELSE in.packed_ok

\* stat() of web_root/web_page: the file exists and is a regular file.
check_web_page(in) ==
  IF in.web = "missing" THEN FALSE
  ELSE IF in.web # "regular" THEN FALSE
  ELSE TRUE

\* in: calloc_ok (the unique-IP array), use_dll (the option --web-page
\* names a ".dll;"), dll_ok (load_web_dll; false in a build without
\* USE_PACKED_DLL), setup_ok (mg_listen / mg_connect per service),
\* packed_ok (see check_packed_web_page) and web (what stat() finds:
\* "missing", "dir" or "regular").  Returns [ret, st].
net_init(st, active, udp, in) ==
  LET st0 == [st EXCEPT !.g.g_unique_ips =
                [ips |-> <<>>, size |-> UNIQUE_IP_INCR,
                 \* calloc (sizeof(*g_unique_ips.ips), g_unique_ips.size)
                 bytes |-> SIZEOF_unique_IP * UNIQUE_IP_INCR],
              !.g.init.use_packed_dll = in.use_dll,
              !.g.init.web = in.web]
  IN
  IF ~in.calloc_ok THEN [ret |-> FALSE, st |-> st0]
  ELSE IF in.use_dll /\ ~active /\ ~in.dll_ok
    THEN [ret |-> FALSE, st |-> st0]
  ELSE IF active /\ st0.g.init.host = {} THEN [ret |-> FALSE, st |-> st0]
  ELSE
    LET r == net_init_setup(st0, udp, active,
                            IF active THEN ActiveOrder ELSE ListenOrder, 1, in)
        http_out == r.st.g.init.listeners[MODES_NET_SERVICE_HTTP] # <<>>
    IN  IF ~r.ret THEN r
        ELSE IF /\ http_out
                /\ ~check_packed_web_page(in.use_dll, in)
                /\ ~check_web_page(in)
          THEN [ret |-> FALSE, st |-> r.st]
        ELSE r

ZeroStat == [s \in Services |-> 0]

\* The network state after net_init().
InitNet ==
  /\ exit = FALSE
  /\ net_active \in BOOLEAN
  /\ \E hosts \in (IF net_active THEN (SUBSET ActiveServices) \ {{}}
                                  ELSE {{}}) :
     \E udp \in (IF MODES_NET_SERVICE_RAW_IN \in hosts THEN BOOLEAN
                                                       ELSE {FALSE}) :
       /\ is_udp = [s \in Services |->
                      net_active /\ udp /\ s = MODES_NET_SERVICE_RAW_IN
                        /\ s \in hosts]
       /\ LET act == hosts
              n   == Cardinality(act)
              svc(id) == IF id = 1 /\ MODES_NET_SERVICE_RAW_IN \in act
                           THEN MODES_NET_SERVICE_RAW_IN
                           ELSE MODES_NET_SERVICE_SBS_IN
          IN  /\ mgr = [id \in Ids |->
                          IF id <= n
                            THEN [state |-> "connecting", service |-> svc(id),
                                  rem |-> ServerAddr, is_accepted |-> FALSE]
                            ELSE NoConn]
              /\ next_id = n + 1
              /\ timer = [s \in Services |->
                            IF s \in act /\ ~is_udp[s] THEN "armed"
                                                       ELSE "unset"]
              /\ init = [host |-> hosts,
                         listeners |->
                           [s \in Services |->
                              IF ~net_active /\ s \in ListenServices
                                THEN listen_url(is_udp, s) ELSE <<>>],
                         failed |-> {}, ret |-> TRUE,
                         use_packed_dll |-> FALSE, web |-> "regular"]
  /\ connections = [s \in Services |-> <<>>]
  /\ stat = [bytes_recv |-> ZeroStat, bytes_sent |-> ZeroStat,
             cli_accepted |-> ZeroStat, cli_removed |-> ZeroStat,
             cli_unknown |-> ZeroStat, srv_connected |-> ZeroStat,
             srv_removed |-> ZeroStat, srv_unknown |-> ZeroStat,
             unique_clients |-> ZeroStat,
             HTTP_get_requests |-> 0, HTTP_keep_alive_recv |-> 0,
             HTTP_keep_alive_sent |-> 0, HTTP_400_responses |-> 0,
             HTTP_404_responses |-> 0, HTTP_500_responses |-> 0]
  /\ num_connections = ZeroStat
  /\ last_err = [s \in Services |-> <<>>]
  /\ g_unique_ips = [ips |-> <<>>, size |-> UNIQUE_IP_INCR,
                     bytes |-> SIZEOF_unique_IP * UNIQUE_IP_INCR]
  /\ closing = {}
  /\ heap = [id \in Ids |-> 0]
  /\ rx = RxInit
  /\ deny4 = Deny4Init
  /\ cfg_file = CfgIdle
  /\ send_q = [id \in Ids |-> <<>>]
  /\ sent_log = [s \in Services |-> <<>>]
  /\ joined = [id \in Ids |-> 0]
  /\ bytes_total = 0
  /\ pc = "running"
  /\ net_exit_ret = FALSE

(***************************************************************************)
(* The 2.4 MHz demodulator (src/src/externals/demod_2400.c).               *)
(*                                                                         *)
(* A magnitude buffer is a record: `length` samples belong to the buffer   *)
(* and the samples behind them are readable too, as the code relies on.    *)
(* The sample at index i is head[i mod period], or 0 behind the head, so   *)
(* that a preamble sits at every multiple of `period`.                     *)
(***************************************************************************)
PREAMBLE_THRESHOLD_PIZERO == 75
MODES_SHORT_MSG_BYTES     == 7
MODES_LONG_MSG_BYTES      == 14
MODES_LONG_MSG_BITS       == MODES_LONG_MSG_BYTES * 8
MODES_SHORT_MSG_BITS      == MODES_SHORT_MSG_BYTES * 8
MODES_MAX_BITERRORS       == 2

\* The content of a local variable that was declared and not yet written.
Indeterminate == -1

\* mag->data[i]
mag_data(mag, i) ==
  LET k == i % mag.period
  IN  IF k < Len(mag.head) THEN mag.head[k + 1] ELSE 0

slice_phase0(mag, p) ==
  18 * mag_data(mag, p) - 15 * mag_data(mag, p + 1) - 3 * mag_data(mag, p + 2)

slice_phase1(mag, p) ==
  14 * mag_data(mag, p) - 5 * mag_data(mag, p + 1) - 9 * mag_data(mag, p + 2)

slice_phase2(mag, p) ==
  16 * mag_data(mag, p) + 5 * mag_data(mag, p + 1) - 20 * mag_data(mag, p + 2)

slice_phase3(mag, p) ==
  7 * mag_data(mag, p) + 11 * mag_data(mag, p + 1) - 18 * mag_data(mag, p + 2)

slice_phase4(mag, p) ==
  4 * mag_data(mag, p) + 15 * mag_data(mag, p + 1)
    - 20 * mag_data(mag, p + 2) + 1 * mag_data(mag, p + 3)

imax(a, b) == IF a > b THEN a ELSE b

\* (x > 0 ? mask : 0); the masks of one byte are distinct bits, so that
\* their bitwise OR is their sum.
bit_if(x, mask) == IF x > 0 THEN mask ELSE 0

\* slice_byte(&pPtr, &phase): the byte, and the pointer and phase after.
slice_byte_advance_19 ==
  [p \in 0 .. 4 |-> 19]

slice_byte_advance ==
  [p \in 0 .. 4 |-> IF p = 4 THEN 20 ELSE 19]

slice_byte_drift(mag, pPtr, phase) ==
  LET bit(k, f) == bit_if(f, 2 ^ (7 - k))
      q(k) == (phase + 12 * k) % 5
      at(k) == pPtr + 2 * k
      corr(k) == CASE q(k) = 0 -> slice_phase0(mag, at(k))
                   [] q(k) = 1 -> slice_phase1(mag, at(k))
                   [] q(k) = 2 -> slice_phase2(mag, at(k))
                   [] q(k) = 3 -> slice_phase3(mag, at(k))
                   [] q(k) = 4 -> slice_phase4(mag, at(k))
  IN  [theByte |-> bit(0, corr(0)) + bit(1, corr(1)) + bit(2, corr(2))
                   + bit(3, corr(3)) + bit(4, corr(4)) + bit(5, corr(5))
                   + bit(6, corr(6)) + bit(7, corr(7)),
       pPtr |-> pPtr + slice_byte_advance[phase],
       phase |-> (phase + 1) % 5]

slice_byte(mag, pPtr, phase) ==
  LET theByte ==
        CASE phase = 0 ->
               bit_if(slice_phase0(mag, pPtr), 128)
             + bit_if(slice_phase2(mag, pPtr + 2), 64)
             + bit_if(slice_phase4(mag, pPtr + 4), 32)
             + bit_if(slice_phase1(mag, pPtr + 7), 16)
             + bit_if(slice_phase3(mag, pPtr + 9), 8)
             + bit_if(slice_phase0(mag, pPtr + 12), 4)
             + bit_if(slice_phase2(mag, pPtr + 14), 2)
             + bit_if(slice_phase4(mag, pPtr + 16), 1)
          [] phase = 1 ->
               bit_if(slice_phase1(mag, pPtr), 128)
             + bit_if(slice_phase3(mag, pPtr + 2), 64)
             + bit_if(slice_phase0(mag, pPtr + 5), 32)
             + bit_if(slice_phase2(mag, pPtr + 7), 16)
             + bit_if(slice_phase4(mag, pPtr + 9), 8)
             + bit_if(slice_phase1(mag, pPtr + 12), 4)
             + bit_if(slice_phase3(mag, pPtr + 14), 2)
             + bit_if(slice_phase0(mag, pPtr + 17), 1)
          [] phase = 2 ->
               bit_if(slice_phase2(mag, pPtr), 128)
             + bit_if(slice_phase4(mag, pPtr + 2), 64)
             + bit_if(slice_phase1(mag, pPtr + 5), 32)
             + bit_if(slice_phase3(mag, pPtr + 7), 16)
             + bit_if(slice_phase0(mag, pPtr + 10), 8)
             + bit_if(slice_phase2(mag, pPtr + 12), 4)
             + bit_if(slice_phase4(mag, pPtr + 14), 2)
             + bit_if(slice_phase1(mag, pPtr + 17), 1)
          [] phase = 3 ->
               bit_if(slice_phase3(mag, pPtr), 128)
             + bit_if(slice_phase0(mag, pPtr + 3), 64)
             + bit_if(slice_phase2(mag, pPtr + 5), 32)
             + bit_if(slice_phase4(mag, pPtr + 7), 16)
             + bit_if(slice_phase1(mag, pPtr + 10), 8)
             + bit_if(slice_phase3(mag, pPtr + 12), 4)
             + bit_if(slice_phase0(mag, pPtr + 15), 2)
             + bit_if(slice_phase2(mag, pPtr + 17), 1)
          [] phase = 4 ->
               bit_if(slice_phase4(mag, pPtr), 128)
             + bit_if(slice_phase1(mag, pPtr + 3), 64)
             + bit_if(slice_phase3(mag, pPtr + 5), 32)
             + bit_if(slice_phase0(mag, pPtr + 8), 16)
             + bit_if(slice_phase2(mag, pPtr + 10), 8)
             + bit_if(slice_phase4(mag, pPtr + 12), 4)
             + bit_if(slice_phase1(mag, pPtr + 15), 2)
             + bit_if(slice_phase3(mag, pPtr + 17), 1)
  IN  [theByte |-> theByte,
       phase   |-> IF phase = 4 THEN 0 ELSE phase + 1,
       pPtr    |-> pPtr + slice_byte_advance[phase]]

\* getbits(data, firstbit, lastbit): bits are numbered from 1 at the top bit
\* of data[0].  The code shifts the masked first byte and the following
\* bytes into place and ORs them; the fields do not overlap, so that the
\* result is the big-endian number of the nby bytes, shifted right.
RECURSIVE getbits_bytes(_, _, _)
getbits_bytes(data, fby, nby) ==
  IF nby = 0 THEN 0
  ELSE getbits_bytes(data, fby, nby - 1) * 256 + data[fby + nby - 1]

getbits(data, firstbit, lastbit) ==
  LET fbi     == firstbit - 1
      lbi     == lastbit - 1
      fby     == fbi \div 8
      lby     == lbi \div 8
      nby     == (lby - fby) + 1
      shift   == 7 - (lbi % 8)
      topmask == 2 ^ (8 - (fbi % 8))          \* (0xFF >> (fbi & 7)) + 1
      masked  == [data EXCEPT ![fby] = data[fby] % topmask]
  IN  getbits_bytes(masked, fby, nby) \div (2 ^ shift)

modesMessageLenByType(type) ==
  IF (type \div 16) % 2 = 1 THEN MODES_LONG_MSG_BITS ELSE MODES_SHORT_MSG_BITS

\* A uint32_t bitset is the set of the positions of its 1 bits.
\* df ^ (1 << bit)
flip_bit(df, bit) ==
  IF (df \div (2 ^ bit)) % 2 = 1 THEN df - 2 ^ bit ELSE df + 2 ^ bit

\* As generate_damage_set, but with the damaged values only.
generate_damage_set_flips(df, damage_bits) ==
  {flip_bit(df, bit) : bit \in 0 .. 4}

RECURSIVE generate_damage_set(_, _)
generate_damage_set(df, damage_bits) ==
  IF damage_bits = 0 THEN {df}
  ELSE {df} \cup UNION {generate_damage_set(flip_bit(df, bit), damage_bits - 1) :
                          bit \in 0 .. 4}

\* init_bitsets(): ENABLE_DF24 is a build option, fixDF and nfix_crc are
\* program options.
init_bitsets_short_any(d) ==
  [d EXCEPT
     !.valid_df_short_bitset = 0 .. 31,
     !.valid_df_long_bitset = {16, 17, 18, 20, 21}]

init_bitsets(d) ==
  [d EXCEPT
     !.valid_df_short_bitset = {0, 4, 5, 11},
     !.valid_df_long_bitset =
        {16, 17, 18, 20, 21}
        \cup (IF d.cfg.ENABLE_DF24 THEN 24 .. 31 ELSE {})
        \cup (IF d.cfg.fixDF # 0 /\ d.cfg.nfix_crc # 0
              THEN generate_damage_set(17, 1) ELSE {})]

\* The bytes msg[i], msg[i+1], ..., msg[bytelen-1] written by the loop of
\* score_phase, with the calls of slice_byte it makes.  Each pass binds the
\* result s of its slice_byte call once.
RECURSIVE slice_bytes(_, _, _, _, _, _, _)
slice_bytes(mag, buffer, calls, i, bytelen, pPtr, phase) ==
  IF i >= bytelen THEN [buffer |-> buffer, calls |-> calls]
  ELSE CHOOSE r \in
         {slice_bytes(mag, [buffer EXCEPT ![i] = s.theByte],
                      Append(calls, [phase |-> phase, pPtr |-> pPtr,
                                     phase_after |-> s.phase,
                                     pPtr_after |-> s.pPtr]),
                      i + 1, bytelen, s.pPtr, s.phase) :
            s \in {slice_byte(mag, pPtr, phase)}} : TRUE

\* (*msg == msg1) ? msg2 : msg1
other_buffer_same(msg) == msg

other_buffer(msg) == IF msg = 1 THEN 2 ELSE 1


\* score_phase(try_phase, pa, &bestmsg, &bestscore, &bestphase, &msg, msg1,
\* msg2).  d.buf[1] and d.buf[2] are msg1 and msg2, d.msg and d.bestmsg say
\* which of them the pointers address (0 is NULL).  `score` is what
\* scoreModesMessage returns for the sliced bytes.  d.calls is the record
\* of the slice_byte calls of this call, d.scored whether it called
\* scoreModesMessage, d.tried what each phase of this offset produced and
\* d.before what bestmsg and bestphase were when the offset was entered.
\* `first` is the result of the first slice_byte call.
score_phase(d, try_phase, score) ==
  CHOOSE r \in {
  LET df      == first.theByte \div 8
      bytelen == IF df \in d.valid_df_long_bitset THEN MODES_LONG_MSG_BYTES
                 ELSE MODES_SHORT_MSG_BYTES
      call0   == [phase |-> try_phase % 5,
                  pPtr |-> d.pa + 19 + (try_phase \div 5),
                  phase_after |-> first.phase, pPtr_after |-> first.pPtr]
      d1      == [d EXCEPT
                    !.stats.demod_preamblePhase[try_phase - 4] = @ + 1,
                    !.buf[d.msg][0] = first.theByte]
      rest    == slice_bytes(d.mag, d1.buf[d.msg], <<call0>>, 1, bytelen,
                             first.pPtr, first.phase)
  IN  IF df \notin d.valid_df_long_bitset /\ df \notin d.valid_df_short_bitset
      THEN [d1 EXCEPT
              !.bestscore = IF -2 > d.bestscore THEN -2 ELSE d.bestscore,
              !.calls = <<call0>>, !.scored = FALSE,
              !.tried = Append(@, [try_phase |-> try_phase, valid |-> FALSE,
                                   score |-> -2, bytelen |-> 1,
                                   bytes |-> d1.buf[d.msg]])]
      ELSE LET d2 == [d1 EXCEPT
                        !.buf[d.msg] = rest.buffer,
                        !.calls = rest.calls, !.scored = TRUE,
                        !.tried = Append(@, [try_phase |-> try_phase,
                                             valid |-> TRUE, score |-> score,
                                             bytelen |-> bytelen,
                                             bytes |-> rest.buffer])]
           IN  IF score > d.bestscore
               THEN [d2 EXCEPT !.bestmsg = d.msg, !.bestscore = score,
                               !.bestphase = try_phase,
                               !.msg = other_buffer(d.msg)]
               ELSE d2
  : first \in {slice_byte(d.mag, d.pa + 19 + (try_phase \div 5),
                          try_phase % 5)}} : TRUE

\* The pre-check of one sample position.
pre_check(mag, pa) ==
  /\ mag_data(mag, pa + 1) > mag_data(mag, pa + 7)
  /\ mag_data(mag, pa + 12) > mag_data(mag, pa + 14)
  /\ mag_data(mag, pa + 12) > mag_data(mag, pa + 15)

\* The ten unrolled pre-checks: the positions pa .. pa+9 that pass.
pre_check_hits(mag, pa) == {k \in 0 .. 9 : pre_check(mag, pa + k)}

Min(S) == CHOOSE x \in S : \A y \in S : x <= y

ref_level(d) ==
  LET base_noise == mag_data(d.mag, d.pa + 5) + mag_data(d.mag, d.pa + 8)
                    + mag_data(d.mag, d.pa + 16) + mag_data(d.mag, d.pa + 17)
                    + mag_data(d.mag, d.pa + 18)
      level == IF d.cfg.samples_dropped # 0
               THEN base_noise * imax(PREAMBLE_THRESHOLD_PIZERO,
                                      d.cfg.preambleThreshold)
               ELSE base_noise * d.cfg.preambleThreshold
  IN  level \div 32

\* pa_mag for the phase about to be tried.
pa_mag(d, try_phase) ==
  LET diff_2_3   == mag_data(d.mag, d.pa + 2) - mag_data(d.mag, d.pa + 3)
      sum_1_4    == mag_data(d.mag, d.pa + 1) + mag_data(d.mag, d.pa + 4)
      diff_10_11 == mag_data(d.mag, d.pa + 10) - mag_data(d.mag, d.pa + 11)
      common3456 == sum_1_4 - diff_2_3 + mag_data(d.mag, d.pa + 9)
                    + mag_data(d.mag, d.pa + 12)
  IN  IF try_phase \in {4, 5} THEN common3456 - diff_10_11
      ELSE IF try_phase \in {6, 7} THEN common3456 + diff_10_11
      ELSE sum_1_4 + 2 * diff_2_3 + diff_10_11 + mag_data(d.mag, d.pa + 12)

\* Modes.stats_current at start.
stats_zero ==
  [demod_preambles |-> 0, demod_rejected_bad |-> 0,
   demod_rejected_unknown_icao |-> 0,
   demod_accepted |-> [i \in 0 .. MODES_MAX_BITERRORS |-> 0],
   demod_preamblePhase |-> [i \in 0 .. 4 |-> 0],
   demod_bestPhase |-> [i \in 0 .. 4 |-> 0],
   signal_power_count |-> 0, noise_power_count |-> 0]

\* The demodulator before demodulate2400 is called: the static bitsets are
\* zero, the statistics are zero, and `cfg` holds the options.
DemodIdle(cfg) ==
  [pc |-> "idle", cfg |-> cfg,
   mag |-> [head |-> <<>>, period |-> 1, length |-> 0, sampleTimestamp |-> 0],
   valid_df_short_bitset |-> {}, valid_df_long_bitset |-> {},
   buf |-> [b \in 1 .. 2 |-> [i \in 0 .. MODES_LONG_MSG_BYTES - 1 |-> Indeterminate]],
   msg |-> 1, bestmsg |-> NULL, bestscore |-> Indeterminate, bestphase |-> 0,
   pa |-> 0, try_phase |-> 4, sum_scaled_signal_power |-> 0,
   stats |-> stats_zero, used |-> <<>>, drained |-> 0,
   calls |-> <<>>, scored |-> FALSE, tried |-> <<>>,
   before |-> [bestmsg |-> NULL, bestphase |-> 0]]

DefaultCfg ==
  [preambleThreshold |-> 58, samples_dropped |-> 0, fixDF |-> 0,
   nfix_crc |-> 0, ENABLE_DF24 |-> FALSE]

\* demodulate2400(mag) up to the head of its loop.
demodulate2400_enter(d, mag) ==
  LET d1 == IF d.valid_df_short_bitset = {} THEN init_bitsets(d) ELSE d
  IN  [d1 EXCEPT !.pc = "loop", !.mag = mag, !.msg = 1, !.bestmsg = NULL,
                 !.bestphase = 0, !.pa = 0, !.sum_scaled_signal_power = 0]

\* One pass from the loop test `pa < stop` through the unrolled pre-checks
\* to the phase tests, or back to the loop test by `continue` (with the
\* loop's pa++).
demodulate2400_pre_unchecked(d) ==
  LET hits == pre_check_hits(d.mag, d.pa)
      pa1  == IF hits = {} THEN d.pa + 9 ELSE d.pa + Min(hits)
  IN  IF hits = {}
      THEN [d EXCEPT !.pa = pa1 + 1]
      ELSE [d EXCEPT !.pa = pa1, !.pc = "phases", !.try_phase = 4,
                     !.bestscore = -42, !.tried = <<>>, !.calls = <<>>,
                     !.before = [bestmsg |-> d.bestmsg,
                                 bestphase |-> d.bestphase]]

demodulate2400_pre(d) ==
  LET hits == pre_check_hits(d.mag, d.pa)
      pa1  == IF hits = {} THEN d.pa + 9 ELSE d.pa + Min(hits)
  IN  IF hits = {} \/ ~(pa1 < d.mag.length)
      THEN [d EXCEPT !.pa = pa1 + 1]
      ELSE [d EXCEPT !.pa = pa1, !.pc = "phases", !.try_phase = 4,
                     !.bestscore = -42, !.tried = <<>>, !.calls = <<>>,
                     !.before = [bestmsg |-> d.bestmsg,
                                 bestphase |-> d.bestphase]]

\* The test of pa_mag for try_phase, and score_phase when it passes.
demodulate2400_phase(d, score) ==
  LET d1 == IF pa_mag(d, d.try_phase) >= ref_level(d)
            THEN score_phase(d, d.try_phase, score)
            ELSE [d EXCEPT !.calls = <<>>]
  IN  IF d.try_phase = 8 THEN [d1 EXCEPT !.pc = "decide"]
      ELSE [d1 EXCEPT !.try_phase = @ + 1]

\* The sum of the squares of the samples pa[19 .. 19+signal_len-1]; the
\* loop of the code adds them one by one, the sum is split in halves here.
RECURSIVE scaled_signal_power(_, _, _)
scaled_signal_power(mag, from, signal_len) ==
  IF signal_len = 0 THEN 0
  ELSE IF signal_len = 1 THEN mag_data(mag, from) * mag_data(mag, from)
  ELSE LET half == signal_len \div 2
       IN  scaled_signal_power(mag, from, half)
           + scaled_signal_power(mag, from + half, signal_len - half)

\* `continue`, with the pa++ of the for statement.
loop_continue_restart(d) == [d EXCEPT !.pc = "loop", !.pa = 0]

loop_continue(d) == [d EXCEPT !.pc = "loop", !.pa = @ + 1]

\* pa += msglen * 8 / 4
skip_message_whole(msglen) == (msglen * 12) \div 5

skip_message(msglen) == (msglen * 8) \div 4

\* mm->timestamp = mag->sampleTimestamp + (pa - m) * 5 + (8 + 56) * 12
\*                 + bestphase
mm_timestamp_no_offset(d) ==
  d.mag.sampleTimestamp + (8 + 56) * 12 + d.bestphase

mm_timestamp(d) ==
  d.mag.sampleTimestamp + d.pa * 5 + (8 + 56) * 12 + d.bestphase

\* The rest of one loop pass of demodulate2400 after the phases were tried.
\* `result` is what decodeModesMessage returns and `correctedbits` what it
\* leaves in mm->correctedbits.  The floating-point sums (signalLevel,
\* signal_power_sum, peak_signal_power, noise_power_sum) and sysTimestamp
\* are left out; strong_signal_count needs a sample above 0.7 of full
\* scale, which the buffers of the model do not have.
demodulate2400_decide_uncounted(d, result, correctedbits) ==
  IF d.bestscore < 0 THEN loop_continue(d)
  ELSE
    LET d1 == [d EXCEPT !.stats.demod_preambles = @ + 1]
        msglen == modesMessageLenByType(getbits(d1.buf[d1.bestmsg], 1, 5))
        mm == [timestamp |-> mm_timestamp(d1), score |-> d1.bestscore,
               msg |-> d1.buf[d1.bestmsg], correctedbits |-> correctedbits,
               offset |-> d1.pa, bestphase |-> d1.bestphase,
               msglen |-> msglen]
    IN
    IF result < 0
    THEN loop_continue(
           IF result = -1
           THEN [d1 EXCEPT !.stats.demod_rejected_unknown_icao = @ + 1]
           ELSE [d1 EXCEPT !.stats.demod_rejected_bad = @ + 1])
    ELSE loop_continue(
           [d1 EXCEPT
              !.stats.demod_accepted[correctedbits] = @ + 1,
              !.stats.demod_bestPhase[d1.bestphase - 4] = @ + 1,
              !.pa = @ + skip_message(msglen),
              !.used = Append(@, mm)])

demodulate2400_decide(d, result, correctedbits) ==
  IF d.bestscore = -42 THEN loop_continue(d)
  ELSE
    LET d1 == [d EXCEPT !.stats.demod_preambles = @ + 1] IN
    IF d1.bestscore < 0
    THEN loop_continue(
           IF d1.bestscore = -1
           THEN [d1 EXCEPT !.stats.demod_rejected_unknown_icao = @ + 1]
           ELSE [d1 EXCEPT !.stats.demod_rejected_bad = @ + 1])
    ELSE
      LET msglen == modesMessageLenByType(getbits(d1.buf[d1.bestmsg], 1, 5))
          mm == [timestamp |-> mm_timestamp(d1),
                 score |-> d1.bestscore,
                 msg |-> d1.buf[d1.bestmsg],
                 correctedbits |-> correctedbits,
                 offset |-> d1.pa, bestphase |-> d1.bestphase,
                 msglen |-> msglen]
          signal_len == (msglen * 12) \div 5
          power == scaled_signal_power(d1.mag, d1.pa + 19, signal_len)
      IN
      IF result < 0
      THEN loop_continue(
             IF result = -1
             THEN [d1 EXCEPT !.stats.demod_rejected_unknown_icao = @ + 1]
             ELSE [d1 EXCEPT !.stats.demod_rejected_bad = @ + 1])
      ELSE loop_continue(
             [d1 EXCEPT
                !.stats.demod_accepted[correctedbits] = @ + 1,
                !.stats.demod_bestPhase[d1.bestphase - 4] = @ + 1,
                !.stats.signal_power_count = @ + signal_len,
                !.sum_scaled_signal_power = @ + power,
                !.pa = @ + skip_message(msglen),
                !.used = Append(@, mm)])

\* The end of demodulate2400, after the loop.
demodulate2400_exit(d) ==
  [d EXCEPT !.stats.noise_power_count = @ + d.mag.length,
            !.drained = @ + 1, !.pc = "done"]

(* ---- the environment of the demodulator ---- *)
\* Heads of sample buffers.  With the default threshold, the phases tried
\* at the preamble of HeadMixed give the DFs 3, 5, 1, 17, 17; HeadInvalid
\* gives 27 and 8 for the two phases that pass the level test; HeadGated
\* gives 16, 0, 2, 2 and passes no level test after dropped samples;
\* HeadShort gives 0, 0, 1, 0.  HeadLate is HeadShort three samples later.
HeadMixed ==
  <<0, 2, 0, 0, 0, 0, 0, 1, 1, 2, 0, 0, 2, 0, 0, 1, 0, 0, 0, 0,
    0, 2, 0, 0, 0, 0, 0, 1, 0, 2, 1, 1, 0, 1, 0, 2, 2, 2, 1, 1>>

HeadInvalid ==
  <<1, 2, 0, 2, 0, 0, 1, 0, 2, 1, 0, 2, 2, 2, 0, 1, 1, 2, 0, 1,
    0, 0, 2, 2, 0, 1, 2, 1, 0, 2, 0, 1, 1, 1, 2, 0, 2, 0, 0, 0>>

HeadGated ==
  <<1, 2, 0, 0, 0, 0, 0, 0, 0, 2, 0, 0, 2, 1, 1, 0, 1, 0, 2, 2,
    0, 0, 0, 0, 0, 0, 1, 0, 1, 0, 1, 2, 1, 0, 1, 1, 2, 0, 0, 2>>

HeadShort ==
  <<0, 2, 0, 2, 1, 0, 0, 1, 1, 1, 1, 1, 1, 2, 0, 0, 0, 0, 2, 0,
    0, 0, 0, 0, 0, 0, 2, 0, 0, 0, 0, 0, 2, 0, 0, 1, 2, 1, 1, 0>>

HeadLate == <<0, 0, 0>> \o HeadShort

Heads == {HeadMixed, HeadInvalid, HeadGated, HeadShort, HeadLate}

\* A preamble every 113 samples: where the loop resumes after a short
\* message.  Every head comes in buffers shorter than a preamble, two of
\* them in a buffer that holds a second preamble.
Lengths == {0, 1, 18}

mag_buf ==
  [head : Heads, period : {113}, length : Lengths, sampleTimestamp : {12000}]
  \cup [head : {HeadMixed, HeadLate}, period : {113}, length : {MaxLen},
        sampleTimestamp : {12000}]

\* The options: the defaults, the same after dropped samples, with the
\* DF repair (and with only one of its two options), and a build with
\* ENABLE_DF24.
Configs ==
  {DefaultCfg,
   [DefaultCfg EXCEPT !.samples_dropped = 1],
   [DefaultCfg EXCEPT !.fixDF = 1, !.nfix_crc = 1],
   [DefaultCfg EXCEPT !.fixDF = 1],
   [DefaultCfg EXCEPT !.nfix_crc = 2],
   [DefaultCfg EXCEPT !.ENABLE_DF24 = TRUE]}

\* The buffers given to the demodulator under each configuration.
BuffersFor(cfg) ==
  IF cfg = DefaultCfg THEN mag_buf
  ELSE {mag \in mag_buf : mag.head \in {HeadMixed, HeadGated, HeadInvalid}
                          /\ mag.length = 1}

\* What scoreModesMessage and decodeModesMessage return.
Scores  == -2 .. MaxScore
Results == {-2, -1, 0}
CorrectedBits(result) ==
  IF result < 0 THEN {0} ELSE 0 .. MODES_MAX_BITERRORS

envvars == <<net_active, is_udp, mgr, next_id, send_q, sent_log, joined,
             bytes_total, pc, net_exit_ret>>

\* The step of the demodulator to the state `next`; the net state is left as it is.
InstallDemod(next) ==
  \E d \in {next} :
    /\ Install([Globals EXCEPT !.demod = d])
    /\ UNCHANGED envvars

DemodEnter(mag) ==
  /\ demod.pc = "idle"
  /\ InstallDemod(demodulate2400_enter(demod, mag))

DemodPre ==
  /\ demod.pc = "loop"
  /\ demod.pa < demod.mag.length
  /\ InstallDemod(demodulate2400_pre(demod))

DemodPhase(score) ==
  /\ demod.pc = "phases"
  /\ InstallDemod(demodulate2400_phase(demod, score))

DemodDecide(result, correctedbits) ==
  /\ demod.pc = "decide"
  /\ InstallDemod(demodulate2400_decide(demod, result, correctedbits))

DemodExit ==
  /\ demod.pc = "loop"
  /\ ~(demod.pa < demod.mag.length)
  /\ InstallDemod(demodulate2400_exit(demod))

\* The HTTP state at start: the option Modes.keep_alive, the zeroed static
\* buffer, no status and no reply yet.
HttpInit(keep_alive) ==
  [keep_alive |-> keep_alive,
   headers    |-> [i \in 1 .. HEADERS_SIZE |-> NUL],
   status     |-> 0,
   reply      |-> [to |-> 0, code |-> 0, head |-> <<>>],
   req        |-> [id |-> 0,
                   hm |-> [method |-> <<>>, uri |-> <<>>, connection |-> <<>>,
                           accept_encoding |-> <<>>],
                   alloc_ok |-> TRUE, found |-> TRUE]]

Init == InitNet /\ http = HttpInit(FALSE) /\ demod = DemodIdle(DefaultCfg)

\* The number of messages published so far.
Published ==
  Len(sent_log[MODES_NET_SERVICE_RAW_OUT])
    + Len(sent_log[MODES_NET_SERVICE_SBS_OUT])

\* A client connects to a listener: the reactor accepts it and calls back.
EvAccept(service, rem, alloc_ok) ==
  /\ pc = "running" /\ ~net_active
  /\ service \in ListenServices
  /\ next_id \in Ids
  /\ \A id \in Ids : Live(id) /\ mgr[id].service = service => mgr[id].rem # rem
  /\ LET m == [mgr EXCEPT ![next_id] =
                 [state |-> "open", service |-> service, rem |-> rem,
                  is_accepted |-> TRUE]]
     IN  Deliver(m, m, next_id, "MG_EV_ACCEPT", 0, alloc_ok)
  /\ next_id' = next_id + 1
  /\ joined' = [joined EXCEPT ![next_id] = Published]
  /\ UNCHANGED <<net_active, is_udp, send_q, sent_log, bytes_total, pc,
                 net_exit_ret>>

\* An active connect succeeds.
EvConnect(id, alloc_ok) ==
  /\ pc = "running"
  /\ mgr[id].state = "connecting"
  /\ LET m == [mgr EXCEPT ![id].state = "open"]
     IN  Deliver(m, m, id, "MG_EV_CONNECT", 0, alloc_ok)
  /\ joined' = [joined EXCEPT ![id] = Published]
  /\ UNCHANGED <<net_active, is_udp, next_id, send_q, sent_log, bytes_total,
                 pc, net_exit_ret>>

\* The bytes a peer can send, n at a time.
Bytes == {"x", END}

Streams(n) == UNION {[1 .. k -> Bytes] : k \in 0 .. n}

\* The same when the peer sends whole records only.
Records(n) == UNION {[1 .. k -> {END}] : k \in 0 .. n}

\* The services whose connections are read by net_connection_recv.
InputServices == {MODES_NET_SERVICE_RAW_IN, MODES_NET_SERVICE_SBS_IN}

ReadInputs(bytes, keeps) ==
  [bytes |-> bytes, keeps |-> keeps, alloc_ok |-> TRUE, realloc_ok |-> TRUE,
   uaf |-> [id \in Ids |-> FALSE]]

\* The reactor has read `data` from the socket into c->recv and calls back.
\* A callback that does not return leaves the program in its loop.
EvRead(id, data, keeps) ==
  /\ pc = "running"
  /\ mgr[id].state = "open" /\ id \notin closing
  /\ LET g0 == [Globals EXCEPT
                  !.rx.calls = <<>>,
                  !.rx.buf[id] = IF mgr[id].service \in InputServices
                                   THEN @ \o data ELSE @]
     IN  Install(net_handler(g0, mgr, Conn(mgr, id), "MG_EV_READ",
                             mgr[id].service, ReadInputs(Len(data), keeps)))
  /\ pc' = IF rx'.spin THEN "hung" ELSE pc
  /\ bytes_total' = bytes_total + Len(data)
  /\ UNCHANGED <<net_active, is_udp, mgr, next_id, send_q, sent_log, joined,
                 net_exit_ret>>

EvWrite(id, bytes) ==
  /\ pc = "running"
  /\ mgr[id].state = "open" /\ id \notin closing
  /\ bytes_total + bytes <= MaxBytes
  /\ Deliver(mgr, mgr, id, "MG_EV_WRITE", bytes, TRUE)
  /\ bytes_total' = bytes_total + bytes
  /\ UNCHANGED <<net_active, is_udp, next_id, send_q, sent_log, joined, pc,
                 net_exit_ret>>

\* mg_error(): the reactor marks the connection is_closing and calls back.
EvError(id) ==
  /\ pc = "running"
  /\ mgr[id].state \in {"connecting", "open"} /\ id \notin closing
  /\ LET m == [mgr EXCEPT ![id].state = "error"]
     IN  Deliver(m, m, id, "MG_EV_ERROR", 0, TRUE)
  /\ UNCHANGED <<net_active, is_udp, next_id, send_q, sent_log, joined, bytes_total,
                 pc, net_exit_ret>>

\* The reactor closes a connection (the peer hung up, or is_closing is
\* set): it calls back, then frees the mg_connection.
EvClose(id) ==
  /\ pc = "running"
  /\ Live(id)
  /\ Deliver(mgr, [mgr EXCEPT ![id].state = "freed"], id, "MG_EV_CLOSE", 0,
             TRUE)
  /\ UNCHANGED <<net_active, is_udp, next_id, send_q, sent_log, joined, bytes_total,
                 pc, net_exit_ret>>

\* The requests of the HTTP runs.
STR_head == <<"h", "e", "a", "d">>
STR_DELETE == <<"D", "E", "L", "E", "T", "E">>
URI_INDEX_HTML == <<"/", "i", "n", "d", "e", "x", ".", "h", "t", "m", "l">>
URI_NODOT == <<"/", "n", "o", "d", "o", "t">>
STR_Keep_Alive == <<"K", "e", "e", "p", "-", "A", "l", "i", "v", "e">>
STR_close == <<"c", "l", "o", "s", "e">>

Methods == {STR_GET, STR_head, STR_DELETE}

Uris ==
  {URI_ROOT, URI_ECHO, URI_RECEIVER_JSON, URI_DATA_JSON, URI_AIRCRAFT_JSON,
   URI_CHUNKS_JSON, URI_FAVICON_PNG, URI_FAVICON_ICO, URI_INDEX_HTML,
   URI_NODOT}

ConnectionHeaders == {<<>>, STR_Keep_Alive, STR_close}

EncodingHeaders == {<<>>, STR_gzip}

mg_http_message ==
  [method : Methods, uri : Uris, connection : ConnectionHeaders,
   accept_encoding : EncodingHeaders]

HttpInputs(hm, alloc_ok, found) ==
  [bytes |-> 0, alloc_ok |-> alloc_ok, realloc_ok |-> TRUE,
   uaf |-> [id \in Ids |-> FALSE], hm |-> hm, found |-> found]

\* The results of aircraft_make_json() and of access() that a request can
\* meet: they matter for the JSON endpoints and for the files only.
AllocChoices(hm) ==
  IF hm.uri \in {URI_DATA_JSON, URI_AIRCRAFT_JSON, URI_CHUNKS_JSON}
       /\ hm.method # STR_DELETE
    THEN BOOLEAN ELSE {TRUE}

FoundChoices(hm) ==
  IF hm.uri = URI_INDEX_HTML /\ hm.method # STR_DELETE
    THEN BOOLEAN ELSE {TRUE}

\* The number of requests net_handler_http has counted.
Requests == stat.HTTP_get_requests + stat.HTTP_400_responses

\* The reactor has parsed a complete HTTP request on a connection of the
\* HTTP listener and calls back.
EvHttpMsg(id, hm, alloc_ok, found) ==
  /\ pc = "running"
  /\ mgr[id].state = "open" /\ id \notin closing
  /\ mgr[id].service = MODES_NET_SERVICE_HTTP
  /\ Install([net_handler(Globals, mgr, Conn(mgr, id), "MG_EV_HTTP_MSG",
                          mgr[id].service, HttpInputs(hm, alloc_ok, found))
                EXCEPT !.http.req = [id |-> id, hm |-> hm,
                                     alloc_ok |-> alloc_ok, found |-> found]])
  /\ UNCHANGED <<net_active, is_udp, mgr, next_id, send_q, sent_log, joined,
                 bytes_total, pc, net_exit_ret>>

\* The one-shot timer of an active connect expires.
EvTimeout(service) ==
  /\ pc = "running"
  /\ timer[service] = "armed"
  /\ Install(net_timeout([Globals EXCEPT !.timer[service] = "called"],
                         service))
  /\ UNCHANGED <<net_active, is_udp, mgr, next_id, send_q, sent_log, joined,
                 bytes_total, pc, net_exit_ret>>

\* SIGINT: the signal handler sets the exit flag.
Signal ==
  /\ pc = "running" /\ ~exit
  /\ Install(modeS_signal_handler(Globals))
  /\ UNCHANGED <<net_active, is_udp, mgr, next_id, send_q, sent_log, joined,
                 bytes_total, pc, net_exit_ret>>

\* The main loop publishes a message to the clients of an output service.
\* Messages are numbered in the order they are published.
Send(service) ==
  /\ pc = "running" /\ ~exit /\ ~net_active
  /\ service \in {MODES_NET_SERVICE_RAW_OUT, MODES_NET_SERVICE_SBS_OUT}
  /\ LET n == Published
     IN  /\ n < MaxSend
         /\ send_q' = net_connection_send(Globals, service, n + 1, send_q)
         /\ sent_log' = [sent_log EXCEPT ![service] = Append(@, n + 1)]
  /\ UNCHANGED <<gvars, net_active, is_udp, mgr, next_id, joined, bytes_total, pc,
                 net_exit_ret>>

\* The main loop has ended: net_exit() frees every record, then
\* mg_mgr_free() closes every connection of the reactor (its Close
\* callbacks return at once, the exit flag being set).
NetExit ==
  /\ pc = "running" /\ exit
  /\ \E uaf \in UafChoices(connections, mgr) :
       LET r == net_exit(Globals, mgr, uaf)
       IN  Install(r.g) /\ net_exit_ret' = r.ret
  /\ mgr' = [id \in Ids |->
               IF Live(id) THEN [mgr[id] EXCEPT !.state = "freed"] ELSE mgr[id]]
  /\ pc' = "exited"
  /\ UNCHANGED <<net_active, is_udp, next_id, send_q, sent_log, joined,
                 bytes_total>>

CoreAddrs == {Loopback, Extern}

Next ==
  \/ \E s \in ClientServices : \E rem \in CoreAddrs : \E ok \in BOOLEAN :
       next_id <= MaxId /\ EvAccept(s, rem, ok)
  \/ \E id \in Ids : \E ok \in BOOLEAN : EvConnect(id, ok)
  \/ \E id \in Ids : EvError(id)
  \/ \E id \in Ids : EvClose(id)
  \/ \E s \in Services : EvTimeout(s)
  \/ Signal
  \/ NetExit

Spec == Init /\ [][Next]_vars

\* Every event of the handler, the Read and Write events included, on
\* fewer connections whose peers send whole records.
NextIo ==
  \/ \E s \in ClientServices : \E rem \in CoreAddrs : \E ok \in BOOLEAN :
       next_id <= MaxIo /\ EvAccept(s, rem, ok)
  \/ \E id \in Ids : \E ok \in BOOLEAN : EvConnect(id, ok)
  \/ \E id \in Ids : \E data \in Records(MaxBytes) :
       bytes_total + Len(data) <= MaxBytes /\ EvRead(id, data, FALSE)
  \/ \E id \in Ids : \E bytes \in 0 .. MaxBytes : EvWrite(id, bytes)
  \/ \E id \in Ids : EvError(id)
  \/ \E id \in Ids : EvClose(id)
  \/ \E s \in Services : EvTimeout(s)
  \/ Signal
  \/ NetExit

SpecIo == Init /\ [][NextIo]_vars

\* The passive mode while the main loop runs: clients of the raw output
\* service come and go and the main loop publishes messages to them.
InitPublish == Init /\ ~net_active

NextPublish ==
  \/ \E rem \in mg_addr :
       next_id <= MaxPub /\ EvAccept(MODES_NET_SERVICE_RAW_OUT, rem, TRUE)
  \/ \E id \in Ids : EvError(id)
  \/ \E id \in Ids : EvClose(id)
  \/ Send(MODES_NET_SERVICE_RAW_OUT)

SpecPublish == InitPublish /\ [][NextPublish]_vars

\* The passive mode with more clients: the connection lists as clients of
\* the raw output service and a local client of the raw input service are
\* accepted, fail and close.
NextList ==
  \/ \E rem \in mg_addr :
       next_id <= MaxClients /\ EvAccept(MODES_NET_SERVICE_RAW_OUT, rem, TRUE)
  \/ next_id <= MaxClients /\ EvAccept(MODES_NET_SERVICE_RAW_IN, Loopback, TRUE)
  \/ \E id \in Ids : EvError(id)
  \/ \E id \in Ids : EvClose(id)

SpecList == InitPublish /\ [][NextList]_vars

\* The HTTP service: clients are accepted, send requests and close.
InitHttp ==
  /\ InitNet /\ ~net_active /\ demod = DemodIdle(DefaultCfg)
  /\ \E ka \in BOOLEAN : http = HttpInit(ka)

NextHttp ==
  \/ next_id <= MaxHttp /\ EvAccept(MODES_NET_SERVICE_HTTP, Extern, TRUE)
  \/ \E id \in Ids : \E hm \in mg_http_message :
       \E ok \in AllocChoices(hm) : \E found \in FoundChoices(hm) :
         Requests < MaxReq /\ EvHttpMsg(id, hm, ok, found)
  \/ \E id \in Ids : EvClose(id)

SpecHttp == InitHttp /\ [][NextHttp]_vars

\* The keep-alive option: one client sends several requests for a
\* favicon, a file and an unknown path, with and without the Connection
\* header.
KeepAliveRequests ==
  [method : {STR_GET},
   uri : {URI_FAVICON_PNG, URI_INDEX_HTML, URI_NODOT},
   connection : {<<>>, STR_keep_alive}, accept_encoding : {<<>>}]

NextKeepAlive ==
  \/ next_id <= MaxHttp /\ EvAccept(MODES_NET_SERVICE_HTTP, Extern, TRUE)
  \/ \E id \in Ids : \E hm \in KeepAliveRequests :
       \E found \in FoundChoices(hm) :
         Requests < MaxKa /\ EvHttpMsg(id, hm, TRUE, found)
  \/ \E id \in Ids : EvClose(id)

SpecKeepAlive == InitHttp /\ [][NextKeepAlive]_vars

\* One call of demodulate2400 on a buffer, step by step.
InitDemod ==
  /\ InitNet /\ ~net_active /\ http = HttpInit(FALSE)
  /\ \E cfg \in Configs : demod = DemodIdle(cfg)

NextDemod ==
  \/ \E mag \in BuffersFor(demod.cfg) : DemodEnter(mag)
  \/ DemodPre
  \/ \E score \in Scores : DemodPhase(score)
  \/ \E result \in Results : \E cb \in CorrectedBits(result) :
       DemodDecide(result, cb)
  \/ DemodExit

SpecDemod == InitDemod /\ [][NextDemod]_vars

\* The same with the loop of demodulate2400 running to its end: the call is
\* one sequential function, which never waits.
SpecDemodFair ==
  /\ SpecDemod
  /\ WF_vars(\E mag \in BuffersFor(demod.cfg) : DemodEnter(mag))
  /\ WF_vars(DemodPre)
  /\ WF_vars(\E score \in Scores : DemodPhase(score))
  /\ WF_vars(\E result \in Results : \E cb \in CorrectedBits(result) :
               DemodDecide(result, cb))
  /\ WF_vars(DemodExit)

\* The input services: a client of the raw input listener, or the servers
\* the program has connected to, send records whole or in pieces.
NextRecv ==
  \/ \E rem \in CoreAddrs :
       next_id <= MaxIo /\ EvAccept(MODES_NET_SERVICE_RAW_IN, rem, TRUE)
  \/ \E id \in Ids : EvConnect(id, TRUE)
  \/ \E id \in Ids : \E data \in Streams(MaxRecv) : \E keeps \in BOOLEAN :
       bytes_total + Len(data) <= MaxRecv /\ EvRead(id, data, keeps)
  \/ \E id \in Ids : \E bytes \in 0 .. MaxBytes : EvWrite(id, bytes)
  \/ \E id \in Ids : EvClose(id)

SpecRecv == Init /\ [][NextRecv]_vars

\* The program before net_init: the options --net-active and --host-raw-in,
\* --host-sbs-in (with or without udp://) are set, nothing else is.
InitPre ==
  /\ exit = FALSE
  /\ net_active \in BOOLEAN
  /\ \E hosts \in SUBSET ActiveServices : \E udp \in SUBSET hosts :
       /\ is_udp = [s \in Services |-> s \in udp]
       /\ init = [host |-> hosts, listeners |-> [s \in Services |-> <<>>],
                  failed |-> {}, ret |-> FALSE,
                  use_packed_dll |-> FALSE, web |-> "missing"]
  /\ mgr = [id \in Ids |-> NoConn]
  /\ next_id = 1
  /\ timer = [s \in Services |-> "unset"]
  /\ connections = [s \in Services |-> <<>>]
  /\ stat = [bytes_recv |-> ZeroStat, bytes_sent |-> ZeroStat,
             cli_accepted |-> ZeroStat, cli_removed |-> ZeroStat,
             cli_unknown |-> ZeroStat, srv_connected |-> ZeroStat,
             srv_removed |-> ZeroStat, srv_unknown |-> ZeroStat,
             unique_clients |-> ZeroStat,
             HTTP_get_requests |-> 0, HTTP_keep_alive_recv |-> 0,
             HTTP_keep_alive_sent |-> 0, HTTP_400_responses |-> 0,
             HTTP_404_responses |-> 0, HTTP_500_responses |-> 0]
  /\ num_connections = ZeroStat
  /\ last_err = [s \in Services |-> <<>>]
  /\ g_unique_ips = [ips |-> <<>>, size |-> 0, bytes |-> 0]
  /\ closing = {}
  /\ heap = [id \in Ids |-> 0]
  /\ rx = RxInit
  /\ deny4 = Deny4Init
  /\ cfg_file = CfgIdle
  /\ http = HttpInit(FALSE)
  /\ demod = DemodIdle(DefaultCfg)
  /\ send_q = [id \in Ids |-> <<>>]
  /\ sent_log = [s \in Services |-> <<>>]
  /\ joined = [id \in Ids |-> 0]
  /\ bytes_total = 0
  /\ pc = "init"
  /\ net_exit_ret = FALSE

\* What net_init meets: see net_init.
InitInputs ==
  [calloc_ok : BOOLEAN, use_dll : BOOLEAN, dll_ok : BOOLEAN,
   setup_ok : [Services -> BOOLEAN], packed_ok : BOOLEAN,
   web : {"missing", "dir", "regular"}]

\* The main program calls net_init; it goes on when that returns true.
NetInit(in) ==
  /\ pc = "init"
  /\ \E r \in {net_init([g |-> Globals, m |-> mgr, next_id |-> next_id],
                        net_active, is_udp, in)} :
       /\ Install([r.st.g EXCEPT !.init.ret = r.ret])
       /\ mgr' = r.st.m
       /\ next_id' = r.st.next_id
       /\ pc' = IF r.ret THEN "running" ELSE "failed"
  /\ UNCHANGED <<net_active, is_udp, send_q, sent_log, joined, bytes_total,
                 net_exit_ret>>

\* Start-up, and what follows it in --net-active mode.
NextInit ==
  \/ \E in \in InitInputs : NetInit(in)
  \/ \E id \in Ids : \E ok \in BOOLEAN : EvConnect(id, ok)
  \/ \E id \in Ids : EvError(id)
  \/ \E id \in Ids : EvClose(id)
  \/ \E s \in Services : EvTimeout(s)
  \/ Signal

SpecInit == InitPre /\ [][NextInit]_vars

\* The characters of the specs tried, and the specs of up to n characters
\* with their sign.
SpecChars == {"1", ".", "/"}

Specs(n) ==
  {sign \o body : sign \in {<<>>, <<"-">>, <<"+">>},
                  body \in UNION {[1 .. k -> SpecChars] : k \in 0 .. n}}

\* The configuration file holds one line internal.deny4, which is handled
\* before net_init.
Deny4Test(value) ==
  /\ pc = "init"
  /\ Install(handle_deny4_test(Globals, value))
  /\ UNCHANGED <<net_active, is_udp, mgr, next_id, send_q, sent_log, joined,
                 bytes_total, pc, net_exit_ret>>

NextDeny ==
  /\ deny4 = Deny4Init
  /\ \E ip_ok \in BOOLEAN : \E spec \in Specs(MaxSpec) :
       Deny4Test([ip_ok |-> ip_ok, spec |-> spec])

InitDeny == InitPre /\ ~net_active /\ init.host = {}

SpecDeny == InitDeny /\ [][NextDeny]_vars

\* The unique-IP array over many clients.  Clients are numbered in the
\* order their addresses are first seen; the first ones are browsers.
ClientAddr(k) ==
  [ip |-> <<10, 1 + (k \div 100), k % 100, 1>>, port |-> 1, is_ip6 |-> FALSE]

\* The entries of the array that lie, wholly or in part, behind the end of
\* the allocated block.
OutsideBlock(u) ==
  {k \in 1 .. Len(u.ips) : k * SIZEOF_unique_IP > u.bytes}

\* client_handler is called for the Accept event of client k.
ClientSeen(k, service, realloc_ok) ==
  /\ pc = "running" /\ ~exit
  /\ Install(client_handler(Globals,
                            [id |-> 1, rem |-> ClientAddr(k),
                             is_accepted |-> TRUE],
                            service, "MG_EV_ACCEPT", realloc_ok).g)
  /\ UNCHANGED <<net_active, is_udp, mgr, next_id, send_q, sent_log, joined,
                 bytes_total, pc, net_exit_ret>>

\* Memory behind the end of the block belongs to the heap: another
\* allocation overwrites what client_is_unique wrote there.
HeapReuse(k, addr) ==
  /\ pc = "running"
  /\ k \in OutsideBlock(g_unique_ips)
  /\ g_unique_ips.ips[k].addr # addr
  /\ Install([Globals EXCEPT !.g_unique_ips.ips[k].addr = addr])
  /\ UNCHANGED <<net_active, is_udp, mgr, next_id, send_q, sent_log, joined,
                 bytes_total, pc, net_exit_ret>>

\* The array has room for the run and the counter of unique clients is
\* within the run's length.
UniqueRoom ==
  /\ Len(g_unique_ips.ips) < UNIQUE_IP_INCR + MaxGrow
  /\ stat.unique_clients[MODES_NET_SERVICE_HTTP]
       + stat.unique_clients[MODES_NET_SERVICE_RAW_OUT]
       + stat.unique_clients[MODES_NET_SERVICE_RAW_IN]
       < UNIQUE_IP_INCR + MaxGrow

NextUnique ==
  \/ /\ UniqueRoom
     /\ \E service \in (IF Len(g_unique_ips.ips) + 1 >= UNIQUE_IP_INCR
                          THEN ClientServices
                          ELSE {MODES_NET_SERVICE_HTTP}) :
          \E realloc_ok \in ReallocChoices :
            ClientSeen(Len(g_unique_ips.ips) + 1, service, realloc_ok)
  \/ /\ UniqueRoom /\ Len(g_unique_ips.ips) > 0
     /\ \E realloc_ok \in ReallocChoices :
          ClientSeen(Len(g_unique_ips.ips), MODES_NET_SERVICE_HTTP, realloc_ok)
  \/ \E k \in (Len(g_unique_ips.ips) - 1) .. Len(g_unique_ips.ips) :
       \E addr \in {NoAddr, ClientAddr(1)} : HeapReuse(k, addr)

InitUnique == Init /\ ~net_active

SpecUnique == InitUnique /\ [][NextUnique]_vars

\* The config-file parser: the files and their lines.  A file holds up to
\* MaxLines lines (the second file one line at most): include lines for
\* the two files and for a file that does not exist, and lines of the
\* caller's table.
Num(neg, mag) == [ok |-> TRUE, neg |-> neg, mag |-> mag]

Include(file, optional) ==
  [key |-> "include",
   value |-> [NoValue EXCEPT !.file = file, !.optional = optional]]

KeyValue(key, num) ==
  [key |-> key, value |-> [NoValue EXCEPT !.num = num]]

CfgLines ==
  {Include("A", FALSE), Include("B", FALSE), Include("M", TRUE),
   KeyValue("int", Num(FALSE, <<0, 0, 0, 7>>))}

LinesUpTo(n) == UNION {[1 .. k -> CfgLines] : k \in 0 .. n}

FileSystems ==
  {[name \in {"A", "B"} |-> IF name = "A" THEN a ELSE b] :
     a \in LinesUpTo(MaxLines), b \in LinesUpTo(1)}

\* The step of the parser to the state `next`.
InstallCfg(next) ==
  \E c \in {next} :
    /\ Install([Globals EXCEPT !.cfg_file = c])
    /\ UNCHANGED envvars

\* The main program calls cfg_open_and_parse (fname, table), with its own
\* table.
CfgOpen(fs, unreadable, fname) ==
  /\ cfg_file.pc = "idle"
  /\ \E r \in {cfg_open_and_parse([cfg_file EXCEPT !.fs = fs,
                                                   !.unreadable = unreadable],
                                  fname, ExternalTable)} :
       InstallCfg(IF r.called THEN [r.c EXCEPT !.pc = "parsing"]
                  ELSE [r.c EXCEPT !.pc = "done", !.ret = r.ret])

CfgLine ==
  /\ cfg_file.pc = "parsing"
  /\ InstallCfg(cfg_parse_file(cfg_file))

NextCfg ==
  \/ \E fs \in FileSystems : \E unreadable \in {{}, {"B"}} :
     \E fname \in {"A", "M"} : CfgOpen(fs, unreadable, fname)
  \/ CfgLine

InitCfg == InitPre /\ ~net_active /\ init.host = {}

SpecCfg == InitCfg /\ [][NextCfg]_vars

\* The same with the parser running on: it is sequential code that never
\* waits.
SpecCfgFair == SpecCfg /\ WF_vars(CfgLine)

\* The values of the lines in the runs about parse_and_set_value: decimals
\* at and around the limits of the target types, and a text without one.
INT_MAX_64 == <<0, 0, 32767, 65535>>

LLONG_MAX_64 == <<32767, 65535, 65535, 65535>>

Decimals ==
  {Num(FALSE, m) :
     m \in {U64_0, <<0, 0, 0, 1>>, UCHAR_MAX_64, <<0, 0, 0, 256>>,
            USHRT_MAX_64, <<0, 0, 1, 0>>, INT_MAX_64, <<0, 0, 32768, 0>>,
            UINT32_MAX_64, <<0, 1, 0, 0>>, LLONG_MAX_64}}
  \cup {Num(TRUE, m) :
          m \in {<<0, 0, 0, 1>>, <<0, 0, 0, 256>>, <<0, 0, 32768, 0>>,
                 <<0, 0, 32768, 1>>, <<32768, 0, 0, 0>>}}

ValueLines ==
  {KeyValue(key, num) : key \in ExternalKeys, num \in Decimals}
  \cup {[key |-> key, value |-> [NoValue EXCEPT !.truth = truth]] :
          key \in ExternalKeys, truth \in {"true", "false"}}

\* A config file of one line for the caller's table.
NextValue ==
  \/ \E line \in ValueLines :
       CfgOpen([name \in {"A"} |-> <<line>>], {}, "A")
  \/ CfgLine

SpecValue == InitCfg /\ [][NextValue]_vars

(***************************************************************************)
(* The claims.                                                             *)
(***************************************************************************)

\* C1: for every service, the connections accepted (in active mode: the
\* connections made) minus the ones removed is the number of records linked
\* in the service's list, after any sequence of events and also after the
\* records have been freed by net_conn_free_all.
C1_AcceptedMinusRemoved ==
  \A s \in Services :
    IF net_active
      THEN stat.srv_connected[s] - stat.srv_removed[s] = Len(connections[s])
      ELSE stat.cli_accepted[s] - stat.cli_removed[s] = Len(connections[s])

\* The same while the program runs, before net_exit (holds).
C1_WhileRunning == pc = "running" => C1_AcceptedMinusRemoved

\* The same with the two kinds of removal taken together (holds).
C1_Balance ==
  \A s \in Services :
    (stat.cli_accepted[s] + stat.srv_connected[s])
      - (stat.cli_removed[s] + stat.srv_removed[s]) = Len(connections[s])


\* A step in which the reactor calls net_handler.
HandlerStep ==
  \/ \E s \in Services : \E rem \in mg_addr : \E ok \in BOOLEAN :
       EvAccept(s, rem, ok)
  \/ \E id \in Ids : \E ok \in BOOLEAN : EvConnect(id, ok)
  \/ \E id \in Ids : \E data \in Streams(MaxBytes) : \E keeps \in BOOLEAN :
       EvRead(id, data, keeps)
  \/ \E id \in Ids : \E bytes \in 0 .. MaxBytes : EvWrite(id, bytes)
  \/ \E id \in Ids : EvError(id) \/ EvClose(id)

\* C2: once the exit flag is set, a call of net_handler, whatever the event
\* and the service, changes no connection list, no statistics counter, no
\* num_connections, no last_err and no timer: a step taken with the flag set
\* that changes one of them is not a call of the handler.
C2_ExitFreezesHandler ==
  [][\/ ~exit
     \/ UNCHANGED <<connections, stat, num_connections, last_err, timer>>
     \/ ~HandlerStep]_vars

\* The exit flag is set and the reactor has since closed a connection whose
\* record is therefore still linked.
C2_Witness ==
  /\ pc = "running" /\ exit
  /\ \E s \in Services : \E k \in 1 .. Len(connections[s]) :
       mgr[connections[s][k].c].state = "freed"

\* The list without the record of mg_connection `id`.
WithoutConn(list, id) ==
  LET keep(r) == r.c # id IN SelectSeq(list, keep)

\* C3: an Error event on an accepted connection removes the record of that
\* connection and no other and leaves the exit flag clear; an Error event
\* on an actively initiated connection stores the error in last_err of the
\* service, frees the connect timer and sets the exit flag.
C3_ErrorEvent ==
  [][\A id \in Ids :
       (~exit /\ EvError(id)) =>
         IF mgr[id].is_accepted
           THEN /\ exit' = FALSE
                /\ \A s \in Services :
                     connections'[s] = WithoutConn(connections[s], id)
           ELSE /\ exit' = TRUE
                /\ StartsWith(last_err'[mgr[id].service], "Connection out ")
                /\ timer'[mgr[id].service] \in {"freed", "unset"}
                /\ timer[mgr[id].service] = "armed"
                     => timer'[mgr[id].service] = "freed"]_vars

\* An accepted connection has failed: its record is gone, the record of
\* another client of the service is still linked, the program runs on.
C3_Witness ==
  /\ pc = "running" /\ ~exit
  /\ \E id \in Ids :
       /\ mgr[id].state = "error" /\ mgr[id].is_accepted
       /\ heap[id] = 1
       /\ Len(connections[mgr[id].service]) = 1
       /\ StartsWith(last_err[mgr[id].service], "Connection in ")

\* C4: when the one-shot timer of an active TCP connect has fired (no
\* Connect or Error event was handled before, which would have freed it),
\* last_err of the service starts with "Timeout in connection to host" and
\* the exit flag is set.
C4_Timeout ==
  \A s \in Services :
    timer[s] = "called" =>
      exit /\ StartsWith(last_err[s], "Timeout in connection to host ")

\* The timer of a service has fired while its connect was still pending.
C4_Witness ==
  \E id \in Ids :
    /\ mgr[id].state = "connecting" /\ ~is_udp[mgr[id].service]
    /\ timer[mgr[id].service] = "called"

IsIncreasing(seq) == \A i, j \in 1 .. Len(seq) : i < j => seq[i] < seq[j]

\* The messages of a log published after the first n messages of the run.
AfterJoin(log, n) ==
  LET later(msg) == msg > n IN SelectSeq(log, later)

\* C5: net_connection_send visits every record of the service's list once,
\* in the order in which the connections were accepted (the reactor numbers
\* its connections in that order), and each linked connection has queued
\* exactly the messages published to its service since it was linked, one
\* copy each, in the order they were published.
C5_PublishOrder ==
  \A s \in Services :
    LET visits == net_connection_send_visits(connections[s], 1, s) IN
    /\ Len(visits) = Len(connections[s])
    /\ \A k \in 1 .. Len(visits) : visits[k] = connections[s][k].c
    /\ IsIncreasing(visits)
    /\ \A k \in 1 .. Len(connections[s]) :
         send_q[connections[s][k].c]
           = AfterJoin(sent_log[s], joined[connections[s][k].id])

\* Two clients of the raw output service, the second accepted between the
\* two messages published: the first has both queued, m1 before m2.
C5_Witness ==
  /\ Len(connections[MODES_NET_SERVICE_RAW_OUT]) = 2
  /\ sent_log[MODES_NET_SERVICE_RAW_OUT] = <<1, 2>>
  /\ send_q[connections[MODES_NET_SERVICE_RAW_OUT][1].c] = <<1, 2>>
  /\ send_q[connections[MODES_NET_SERVICE_RAW_OUT][2].c] = <<2>>

\* C6: a Close event removes the record of the closed connection and no
\* other: every other record of every list stays, unchanged and in the
\* same relative order.
C6_CloseRemovesOnlyThat ==
  [][\A id \in Ids :
       (~exit /\ EvClose(id)) =>
         \A s \in Services :
           connections'[s] = WithoutConn(connections[s], id)]_vars

\* The second of three clients of one service was closed (without an Error
\* before): the first and the third are still linked, in that order.
C6_Witness ==
  \E s \in Services :
    /\ Len(connections[s]) = 2
    /\ connections[s][1].id = 1 /\ connections[s][2].id = 3
    /\ mgr[2].state = "freed" /\ mgr[2].service = s /\ heap[2] = 1
    /\ stat.cli_unknown[s] = 0

UniqueIpSeen(ip) ==
  \E k \in 1 .. Len(g_unique_ips.ips) : g_unique_ips.ips[k].addr.ip = ip

\* C8 (as claimed): an Accept from loopback leaves the unique-IP set and
\* unique_clients unchanged.
C8_LoopbackNotClassified ==
  [][\A s \in Services : \A rem \in mg_addr : \A ok \in BOOLEAN :
       (EvAccept(s, rem, ok) /\ ~client_is_extern(rem)) =>
         /\ g_unique_ips' = g_unique_ips
         /\ stat'.unique_clients = stat.unique_clients]_vars

\* C8 (amended): an Accept handled by net_handler classifies the address
\* whether or not it is loopback: an IP that is in the set already changes
\* nothing; any other is counted in unique_clients of the service and
\* appended to the set (unless the set is full and cannot be grown).
C8_EveryAddressClassified ==
  [][\A s \in Services : \A rem \in mg_addr : \A ok \in BOOLEAN :
       (~exit /\ EvAccept(s, rem, ok)) =>
         IF UniqueIpSeen(rem.ip)
           THEN /\ g_unique_ips' = g_unique_ips
                /\ stat'.unique_clients = stat.unique_clients
           ELSE /\ stat'.unique_clients = Bump(stat.unique_clients, s)
                /\ \/ g_unique_ips'.ips =
                        Append(g_unique_ips.ips, [addr |-> rem, service |-> s])
                   \/ /\ Len(g_unique_ips.ips) >= g_unique_ips.size
                      /\ g_unique_ips' = g_unique_ips]_vars

\* A loopback client has been accepted and is in the unique-IP set.
C8_Witness ==
  \E k \in 1 .. Len(g_unique_ips.ips) :
    /\ ~client_is_extern(g_unique_ips.ips[k].addr)
    /\ stat.unique_clients[g_unique_ips.ips[k].service] >= 1
    /\ stat.cli_accepted[g_unique_ips.ips[k].service] >= 1

\* The IP addresses of the clients accepted on a service so far.
AcceptedIps(s) ==
  {mgr[id].rem.ip : id \in {i \in Ids : mgr[i].is_accepted
                                         /\ mgr[i].service = s}}

\* C9: unique_clients[s] is the number of distinct client IP addresses
\* accepted on service s, an address that connects to two services being
\* counted once for each (stated while every Accept so far was handled,
\* the exit flag being clear; the set never has to grow within the bounds).
C9_UniquePerService ==
  ~exit => \A s \in Services :
             stat.unique_clients[s] = Cardinality(AcceptedIps(s))

Linked(id) ==
  \E s \in Services : \E k \in 1 .. Len(connections[s]) :
    connections[s][k].id = id

\* C10: when net_exit returns, every list is empty, every record that was
\* linked has been freed once (and no record was ever freed twice) and is
\* counted once in cli_removed or srv_removed of its service, and the
\* return value is true exactly when a record was freed.
C10_NetExit ==
  [][(pc = "running" /\ pc' = "exited") =>
       /\ \A s \in Services : connections'[s] = <<>>
       /\ \A id \in Ids :
            /\ heap'[id] = heap[id] + (IF Linked(id) THEN 1 ELSE 0)
            /\ heap'[id] <= 1
       /\ \A s \in Services :
            stat'.cli_removed[s] + stat'.srv_removed[s]
              = stat.cli_removed[s] + stat.srv_removed[s] + Len(connections[s])
       /\ net_exit_ret' = (\E s \in Services : connections[s] # <<>>)]_vars

\* net_exit has returned true after freeing two records: no Close event
\* was handled before, so no lookup ever failed.
C10_Witness ==
  /\ pc = "exited" /\ net_exit_ret
  /\ heap[1] = 1 /\ heap[2] = 1
  /\ \A s \in Services : stat.cli_unknown[s] = 0 /\ stat.srv_unknown[s] = 0

\* A step in which net_handler_http handled a request, http'.req.
HttpStep == Requests' = Requests + 1

\* The spellings of GET and HEAD among the methods of the runs.
GetOrHead == {STR_GET, STR_head}

\* C11: a request whose method is neither GET nor HEAD, whatever its URI,
\* yields status 400 and adds one to HTTP_400_responses; HTTP_get_requests
\* and every connection record (its keep-alive and gzip flags included)
\* are unchanged.
C11_BadMethod ==
  [][(HttpStep /\ http'.req.hm.method \notin GetOrHead) =>
       /\ http'.status = 400
       /\ stat'.HTTP_400_responses = stat.HTTP_400_responses + 1
       /\ stat'.HTTP_get_requests = stat.HTTP_get_requests
       /\ connections' = connections]_vars

\* "DELETE /" with both headers set was answered with 400.
C11_Witness ==
  /\ http.status = 400 /\ stat.HTTP_400_responses = 1
  /\ http.req.hm.method = STR_DELETE /\ http.req.hm.uri = URI_ROOT
  /\ http.req.hm.connection = STR_Keep_Alive
  /\ http.req.hm.accept_encoding = STR_gzip

\* The status the URI of a GET or HEAD request calls for.
ExpectedStatus(req) ==
  IF req.hm.uri = URI_ROOT THEN 301
  ELSE IF req.hm.uri \in {URI_ECHO, URI_RECEIVER_JSON} THEN 200
  ELSE IF req.hm.uri \in {URI_DATA_JSON, URI_AIRCRAFT_JSON, URI_CHUNKS_JSON}
    THEN IF req.alloc_ok THEN 200 ELSE 500
  ELSE IF req.hm.uri \in {URI_FAVICON_PNG, URI_FAVICON_ICO} THEN 200
  ELSE IF req.hm.uri = URI_INDEX_HTML
    THEN IF req.found THEN 200 ELSE 404
  ELSE 404

\* C12: for a GET or HEAD request on a connection with a record, the
\* status follows from the URI: "/" 301; "/echo" 200; the receiver JSON
\* 200; the three aircraft JSON endpoints 200, or 500 with the connection
\* marked closing when the allocation fails; a favicon or an existing file
\* 200, a missing file 404; anything else 404.  No other outcome marks the
\* connection closing.
C12_StatusByUri ==
  [][(HttpStep /\ http'.req.hm.method \in GetOrHead) =>
       /\ http'.status = ExpectedStatus(http'.req)
       /\ closing' = IF http'.status = 500
                       THEN closing \cup {http'.req.id} ELSE closing]_vars

\* A request for /chunks/chunks.json met a failed allocation: status 500
\* and the connection is marked closing.
C12_Witness ==
  /\ http.status = 500 /\ http.req.hm.uri = URI_CHUNKS_JSON
  /\ http.req.id \in closing /\ stat.HTTP_500_responses = 1

\* sub occurs in str as a run of consecutive characters.
Contains(str, sub) ==
  \E i \in 0 .. (Len(str) - Len(sub)) :
    \A j \in 1 .. Len(sub) : str[i + j] = sub[j]

\* C13: every 200 reply to a JSON endpoint carries the header line
\* "Content-Type: application/json", and every favicon reply carries
\* "Content-Type: ", the PNG or x-icon type and CRLF.
C13_ContentType ==
  (http.status = 200 /\ http.reply.code = 200
     /\ http.req.hm.method \in GetOrHead) =>
    /\ http.req.hm.uri \in {URI_RECEIVER_JSON, URI_DATA_JSON,
                            URI_AIRCRAFT_JSON, URI_CHUNKS_JSON}
         => Contains(http.reply.head, MODES_CONTENT_TYPE_JSON \o CRLF)
    /\ http.req.hm.uri = URI_FAVICON_PNG
         => Contains(http.reply.head,
                     STR_CONTENT_TYPE \o MODES_CONTENT_TYPE_PNG \o CRLF)
    /\ http.req.hm.uri = URI_FAVICON_ICO
         => Contains(http.reply.head,
                     STR_CONTENT_TYPE \o MODES_CONTENT_TYPE_ICON \o CRLF)

\* C14: a reply carries "Connection: keep-alive", and HTTP_keep_alive_sent
\* is incremented, only when Modes.keep_alive is on and the request being
\* answered carried "Connection: keep-alive".
C14_KeepAliveOnlyWhenRequested ==
  [][(HttpStep
        /\ \/ Contains(http'.reply.head, STR_KEEP_ALIVE_HEADER)
           \/ stat'.HTTP_keep_alive_sent # stat.HTTP_keep_alive_sent) =>
       /\ http.keep_alive
       /\ http'.req.hm.connection = STR_keep_alive]_vars

(* ---- the demodulator ---- *)
\* C15: every call of slice_byte at phase p in 0..4 leaves the phase at
\* (p+1) mod 5 and advances the sample pointer by 19, or by 20 when p = 4;
\* five consecutive calls return to the starting phase and advance the
\* pointer by exactly 96 samples.  demod.calls holds the consecutive calls
\* made by the last score_phase.
C15_SliceByteAdvance ==
  LET calls == demod.calls IN
  /\ \A i \in 1 .. Len(calls) :
       /\ calls[i].phase \in 0 .. 4
       /\ calls[i].phase_after = (calls[i].phase + 1) % 5
       /\ calls[i].pPtr_after - calls[i].pPtr
            = IF calls[i].phase = 4 THEN 20 ELSE 19
  /\ \A i \in 1 .. Len(calls) - 4 :
       /\ calls[i + 4].phase_after = calls[i].phase
       /\ calls[i + 4].pPtr_after = calls[i].pPtr + 96

\* A long message was sliced starting at phase 4: fourteen calls, with
\* three wraparounds.
C15_Witness ==
  /\ Len(demod.calls) = MODES_LONG_MSG_BYTES
  /\ demod.calls[1].phase = 4

\* The DF that score_phase reads for try_phase at the current offset: the
\* top five bits of the first byte sliced.
FirstDf(d, try_phase) ==
  slice_byte(d.mag, d.pa + 19 + (try_phase \div 5), try_phase % 5).theByte \div 8

\* A step in which score_phase was called for demod.try_phase.
ScorePhaseStep ==
  /\ demod.pc = "phases"
  /\ demod'.pc \in {"phases", "decide"}
  /\ Len(demod'.calls) > 0

\* C16: when the DF of the first sliced byte is in neither the short set
\* {0,4,5,11} nor the long set, score_phase slices no further byte, does
\* not call scoreModesMessage, makes bestscore max(bestscore, -2) and
\* leaves bestmsg, bestphase and the buffer selection unchanged.
C16_InvalidDfAborts ==
  [][(/\ ScorePhaseStep
      /\ FirstDf(demod, demod.try_phase) \notin {0, 4, 5, 11}
      /\ FirstDf(demod, demod.try_phase) \notin demod.valid_df_long_bitset)
     => /\ Len(demod'.calls) = 1
        /\ ~demod'.scored
        /\ demod'.bestscore = imax(demod.bestscore, -2)
        /\ demod'.bestmsg = demod.bestmsg
        /\ demod'.bestphase = demod.bestphase
        /\ demod'.msg = demod.msg]_vars

\* An invalid DF was met while a scored candidate was the best one.
C16_Witness ==
  /\ demod.pc \in {"phases", "decide"}
  /\ Len(demod.calls) = 1
  /\ ~demod.scored
  /\ demod.bestscore >= 0
  /\ demod.bestmsg # NULL

\* The highest score among the phases tried at the current offset (-2 for
\* a phase whose DF is invalid), and the first phase tried that reached it.
MaxTried ==
  LET t == demod.tried
  IN  CHOOSE x \in {t[i].score : i \in 1 .. Len(t)} :
        \A i \in 1 .. Len(t) : t[i].score <= x

FirstBest ==
  LET t == demod.tried
  IN  t[Min({i \in 1 .. Len(t) : t[i].score = MaxTried})]

\* The buffer bestmsg points to holds the bytes that were sliced at the
\* phase recorded in `entry`.
BestmsgHolds(entry) ==
  /\ demod.bestmsg # NULL
  /\ \A i \in 0 .. entry.bytelen - 1 :
       demod.buf[demod.bestmsg][i] = entry.bytes[i]

AllPhasesTried == demod.pc = "decide" /\ demod.tried # <<>>

C18_Timestamp ==
  \A k \in 1 .. Len(demod.used) :
    LET mm == demod.used[k] IN
    /\ mm.score >= 0
    /\ mm.timestamp = demod.mag.sampleTimestamp + 5 * mm.offset + 768
                      + mm.bestphase
    /\ 0 <= mm.offset /\ mm.offset < demod.mag.length
    /\ mm.bestphase \in 4 .. 8
    /\ \A o \in 0 .. demod.mag.length - 1 : \A p \in 4 .. 8 :
         mm.timestamp - demod.mag.sampleTimestamp - 768 = 5 * o + p
           => o = mm.offset /\ p = mm.bestphase
    /\ \A j \in 1 .. Len(demod.used) :
         demod.used[j].timestamp = mm.timestamp => j = k

\* Two messages of one buffer were passed on, from different offsets.
C18_Witness ==
  /\ Len(demod.used) = 2
  /\ demod.used[1].offset # demod.used[2].offset

\* One pass of the loop of demodulate2400 ends: from the phases tried, or
\* from a pre-check that found nothing, back to the loop test.
LoopPassEnds ==
  /\ demod.pc \in {"loop", "decide"}
  /\ demod'.pc = "loop"

\* C19: the search offset strictly increases on every pass of the loop;
\* after a message of L bits is accepted at offset o the next offset
\* examined is o + 2*L + 1, after a rejected or failed candidate it is the
\* next sample; demodulate2400 terminates and calls
\* netDrainMessageBuffers exactly once, at the end.
C19_Terminates ==
  /\ [][/\ demod'.pa >= demod.pa
        /\ LoopPassEnds => demod'.pa > demod.pa
        /\ (demod.pc = "decide" /\ demod'.used # demod.used)
             => LET mm == demod'.used[Len(demod'.used)]
                IN  /\ mm.msglen \in {56, 112}
                    /\ demod'.pa = demod.pa + 2 * mm.msglen + 1
        /\ (demod.pc = "decide" /\ demod'.used = demod.used)
             => demod'.pa = demod.pa + 1
        /\ demod'.drained # demod.drained
             => /\ demod'.drained = demod.drained + 1
                /\ demod'.pc = "done"]_vars
  /\ [](demod.drained = IF demod.pc = "done" THEN 1 ELSE 0)
  /\ <>(demod.pc = "done")

\* The loop resumed behind an accepted message and found the next
\* preamble there.
C19_Witness ==
  /\ demod.pc = "phases"
  /\ Len(demod.used) = 1
  /\ demod.pa = demod.used[1].offset + 2 * demod.used[1].msglen + 1

\* C20: for a buffer of fewer than 19 samples demodulate2400 passes no
\* message to netUseMessage and increments no demodulator counter,
\* whatever the samples in and after the buffer.
C20_ShortBufferIdle ==
  demod.mag.length < 19 =>
    /\ demod.used = <<>>
    /\ demod.stats.demod_preambles = 0
    /\ demod.stats.demod_rejected_bad = 0
    /\ demod.stats.demod_rejected_unknown_icao = 0
    /\ \A i \in 0 .. MODES_MAX_BITERRORS : demod.stats.demod_accepted[i] = 0
    /\ \A i \in 0 .. 4 : demod.stats.demod_preamblePhase[i] = 0
    /\ \A i \in 0 .. 4 : demod.stats.demod_bestPhase[i] = 0

\* Where net_init calls connection_setup_listen for the service.
ListenIndex(service) ==
  CHOOSE i \in 1 .. Len(ListenOrder) : ListenOrder[i] = service

\* net_init has returned, in passive mode.
PassiveInitDone == pc # "init" /\ ~net_active

\* C21 as stated: in passive mode net_init sets up a listener bound to
\* 0.0.0.0:port for each of the five services and returns false as soon as
\* one listener cannot be set up.
C21_FiveListeners ==
  PassiveInitDone =>
    /\ init.ret =>
         \A s \in Services :
           /\ init.listeners[s] # <<>>
           /\ SubSeq(init.listeners[s], 2, 5)
                = <<"://", "0.0.0.0", ":", net_handler_port(s)>>
    /\ \A f \in init.failed : ~init.ret

\* C21 amended: in passive mode net_init sets up a listener bound to
\* 0.0.0.0:port for the raw input, the raw output, the SBS output and the
\* HTTP service, in this order, and none for the SBS input; it returns
\* false as soon as one listener cannot be set up, leaving the later ones
\* without a listener.
C21_FourListeners ==
  PassiveInitDone =>
    /\ \A s \in Services :
         init.listeners[s] # <<>> =>
           /\ s \in ListenServices
           /\ init.listeners[s][1]
                = (IF is_udp[s] /\ s = MODES_NET_SERVICE_RAW_IN
                     THEN "udp" ELSE "tcp")
           /\ SubSeq(init.listeners[s], 2, 5)
                = <<"://", "0.0.0.0", ":", net_handler_port(s)>>
    /\ init.ret => \A s \in ListenServices : init.listeners[s] # <<>>
    /\ \A f \in init.failed :
         /\ ~init.ret
         /\ \A s \in ListenServices :
              init.listeners[s] # <<>> <=> ListenIndex(s) < ListenIndex(f)

\* net_init has returned true in passive mode, the raw input listener
\* being a UDP one.
C21_Witness ==
  /\ PassiveInitDone /\ init.ret
  /\ init.listeners[MODES_NET_SERVICE_RAW_IN][1] = "udp"
  /\ init.listeners[MODES_NET_SERVICE_HTTP] # <<>>

\* C24: when the set-up of a listener or of an active connection fails at
\* start-up, net_init returns false and the last-error string of the
\* failing service is set.
C24_SetupErrorStored ==
  \A f \in init.failed : ~init.ret /\ last_err[f] # <<>>

\* The number of characters x in str.
CountOf(str, x) == Cardinality({i \in 1 .. Len(str) : str[i] = x})

\* str is `octets` decimal numbers separated by dots.
IsOctets(str, octets) ==
  /\ Len(str) > 0
  /\ \A i \in 1 .. Len(str) : str[i] \in Digits \cup {"."}
  /\ str[1] # "." /\ str[Len(str)] # "."
  /\ \A i \in 1 .. Len(str) - 1 : ~(str[i] = "." /\ str[i + 1] = ".")
  /\ CountOf(str, ".") = octets - 1

\* The index of the one slash of a CIDR spec "octets/bits", else 0.
CidrSlash(spec) ==
  IF CountOf(spec, "/") = 1
    THEN CHOOSE i \in 1 .. Len(spec) : spec[i] = "/"
    ELSE 0

RECURSIVE ZeroOctets(_)
ZeroOctets(n) == IF n = 0 THEN <<>> ELSE <<".", "0">> \o ZeroOctets(n - 1)

\* C22: in the deny-list test handler, the spec handed to mg_check_ip_acl
\* for a CIDR spec of one, two or three octets before the slash is the spec
\* with zero octets added up to four ("a/bits" gives "a.0.0.0/bits",
\* "a.b/bits" gives "a.b.0.0/bits", "a.b.c/bits" gives "a.b.c.0/bits"); a
\* spec of four octets and a spec without a slash are handed on unchanged.
C22_Deny4Expanded ==
  deny4.checked =>
    LET spec  == deny4.value.spec
        slash == CidrSlash(spec)
    IN  /\ CountOf(spec, "/") = 0 => deny4.spec = spec
        /\ \A octets \in 1 .. 4 :
             /\ slash > 1
             /\ IsOctets(SubSeq(spec, 1, slash - 1), octets)
             => deny4.spec = SubSeq(spec, 1, slash - 1)
                               \o ZeroOctets(4 - octets)
                               \o SubSeq(spec, slash, Len(spec))

\* The spec "1.1/1" has been tested and was matched as "1.1.0.0/1".
C22_Witness ==
  /\ deny4.checked
  /\ deny4.value.spec = <<"1", ".", "1", "/", "1">>
  /\ deny4.spec = <<"1", ".", "1", ".", "0", ".", "0", "/", "1">>

\* The bytes of msg behind its last terminator: the incomplete record.
IncompleteTail(msg) == SubSeq(msg, strrchr(msg, END, Len(msg)) + 1, Len(msg))

\* The connection is open and has a record in the list of an input service.
InputRecord(id) ==
  /\ mgr[id].state = "open"
  /\ mgr[id].service \in InputServices
  /\ Linked(id)

\* C23: a Read event on a RAW_IN or SBS_IN connection whose buffer ends in
\* an incomplete record returns with the bytes of that record kept in the
\* receive buffer, where the next Read event on the connection finds them.
C23_IncompleteKept ==
  [][\A id \in Ids :
       InputRecord(id) =>
         \A data \in Streams(MaxRecv) :
           IncompleteTail(rx.buf[id] \o data) # <<>> =>
             \A keeps \in BOOLEAN :
               EvRead(id, data, keeps) =>
                 /\ pc' = "running"
                 /\ rx'.buf[id] = IncompleteTail(rx.buf[id] \o data)]_vars

\* The records parsed by the calls of the handler, one behind the other.
RECURSIVE DecodedBytes(_, _)
DecodedBytes(calls, k) ==
  IF k > Len(calls) THEN <<>>
  ELSE calls[k].record \o DecodedBytes(calls, k + 1)

\* C25: on a Read event for RAW_IN on a connection that has a record, every
\* call of decode_RAW_message is made by the first net_connection_recv
\* (is_server false); that call returns only with an empty receive buffer,
\* so the second one calls the handler zero times; and the records parsed
\* are consecutive pieces of the buffer: no byte is decoded twice.
C25_FirstRecvOnly ==
  [][\A id \in Ids :
       (InputRecord(id) /\ mgr[id].service = MODES_NET_SERVICE_RAW_IN) =>
         \A data \in Streams(MaxRecv) : \A keeps \in BOOLEAN :
           EvRead(id, data, keeps) =>
             LET msg == rx.buf[id] \o data
                 dec == DecodedBytes(rx'.calls, 1)
             IN  /\ \A k \in 1 .. Len(rx'.calls) : ~rx'.calls[k].is_server
                 /\ pc' = "running" => rx'.buf[id] = <<>>
                 /\ Len(msg) > 0 => Len(rx'.calls) > 0
                 /\ dec = SubSeq(msg, 1, Len(dec))
                 /\ \A k \in 1 .. Len(rx'.calls) - 1 :
                      rx'.calls[k + 1].msg =
                        SubSeq(rx'.calls[k].msg, Len(rx'.calls[k].record) + 1,
                               Len(rx'.calls[k].msg))]_vars

\* A Read event has brought two records, both parsed by calls of the first
\* net_connection_recv, which returned with the buffer empty.
C25_Witness ==
  /\ pc = "running"
  /\ Len(rx.calls) = 2
  /\ \A k \in 1 .. 2 : ~rx.calls[k].is_server /\ rx.calls[k].record = <<END>>
  /\ \A id \in Ids : rx.buf[id] = <<>>

\* net_timeout runs for the service in this step.
TimeoutStep(s) == timer[s] = "armed" /\ timer'[s] = "called"

\* last_err' of the service is a new error, stored by net_timeout.
TimeoutStored(s) ==
  /\ last_err'[s] # last_err[s]
  /\ StartsWith(last_err'[s], "Timeout in connection to host ")

\* C26: a timer exists only for a service for which net_init started an
\* active TCP connect, never for a UDP service or a listener; net_timeout
\* runs for a service only while the handler has acted neither on a Connect
\* nor on an Error event of the service's connection; and once Connect or
\* Error has freed the timer, the timer stays freed and no timeout error is
\* stored.
C26_TimeoutOnlyWhileConnecting ==
  /\ [](\A s \in Services :
          timer[s] # "unset" =>
            /\ net_active /\ s \in init.host /\ pc # "init"
            /\ ~is_udp[s]
            /\ init.listeners[s] = <<>>)
  /\ [][\A s \in Services :
          /\ TimeoutStep(s) =>
               /\ stat.srv_connected[s] = 0 /\ last_err[s] = <<>>
               /\ connections[s] = <<>>
               /\ \A id \in closing : mgr[id].service # s
          /\ TimeoutStored(s) => TimeoutStep(s)
          /\ timer[s] = "freed" =>
               timer'[s] = "freed" /\ ~TimeoutStored(s)]_vars

\* The connect to the raw input host has succeeded and freed its timer; the
\* one to the SBS input host has timed out.
C26_Witness ==
  /\ timer[MODES_NET_SERVICE_RAW_IN] = "freed"
  /\ stat.srv_connected[MODES_NET_SERVICE_RAW_IN] = 1
  /\ timer[MODES_NET_SERVICE_SBS_IN] = "called"
  /\ StartsWith(last_err[MODES_NET_SERVICE_SBS_IN],
                "Timeout in connection to host ")

\* C27: while the program runs in passive mode and no connection is between
\* its Error and its Close event, num_connections of every service is the
\* number of records linked in the service's list (so it has not wrapped
\* below zero), also after an Accept whose record could not be allocated.
C27_CountIsRecords ==
  (/\ pc = "running" /\ ~exit /\ ~net_active
   /\ \A id \in Ids : mgr[id].state # "error")
    => \A s \in Services : num_connections[s] = Len(connections[s])

\* C28: until net_exit has returned, also after the exit flag is set, every
\* record linked in a service list points to a connection the reactor has
\* not closed and freed (so net_conn_free never reads is_accepted through
\* the pointer of a connection whose Close event was delivered).
C28_NoDanglingRecord ==
  pc = "running" => Dangling(connections, mgr) = {}

\* Every connection of the reactor is open and has its record, or does not
\* exist (any more): the next event is an Accept, or concerns a connection
\* that was accepted or connected and is not yet closed.
AllEstablished ==
  \A id \in Ids : \/ mgr[id].state \in {"none", "freed"}
                  \/ mgr[id].state = "open" /\ Linked(id)

\* C29: an Accept, Read, Write or Close event, on a connection that was
\* accepted or connected and is not yet closed, makes no look-up of
\* connection_get fail: cli_unknown and srv_unknown of every service stay as
\* they are (at zero).
C29_NoUnknown ==
  [][AllEstablished =>
       /\ stat'.cli_unknown = stat.cli_unknown
       /\ stat'.srv_unknown = stat.srv_unknown]_vars

\* One when the request of this step was answered with `status`, else zero.
Returned(status) == IF http'.status = status THEN 1 ELSE 0

\* C30: every request handled by net_handler_http adds one to
\* HTTP_404_responses exactly when it returned 404, to HTTP_400_responses
\* exactly when it returned 400 and to HTTP_500_responses exactly when it
\* returned 500, so each counter is the number of such requests.
C30_CountersMatchStatus ==
  [][HttpStep =>
       /\ stat'.HTTP_404_responses = stat.HTTP_404_responses + Returned(404)
       /\ stat'.HTTP_400_responses = stat.HTTP_400_responses + Returned(400)
       /\ stat'.HTTP_500_responses = stat.HTTP_500_responses + Returned(500)]_vars

\* C31: no two entries of the unique-IP array hold the same IP address, and
\* the entries lie inside the memory allocated for the array: idx times the
\* size of an entry is at most the size of the block in bytes, also after
\* the array has been grown.
C31_UniqueIpsInsideBlock ==
  LET u == g_unique_ips IN
  /\ \A j, k \in 1 .. Len(u.ips) :
       u.ips[j].addr.ip = u.ips[k].addr.ip => j = k
  /\ Len(u.ips) * SIZEOF_unique_IP <= u.bytes

\* C32: when the HTTP listener is set up and no packed web DLL is used,
\* net_init returns false if web_root/web_page does not exist or is not a
\* regular file.
C32_WebPageChecked ==
  (/\ pc # "init"
   /\ init.listeners[MODES_NET_SERVICE_HTTP] # <<>>
   /\ ~init.use_packed_dll
   /\ init.web # "regular")
    => ~init.ret

\* The number of the five DF bits in which a and b differ.
HammingDistance(a, b) ==
  Cardinality({bit \in 0 .. 4 :
                 (a \div (2 ^ bit)) % 2 # (b \div (2 ^ bit)) % 2})

\* C33: generate_damage_set(df, n) is the set of the 5-bit DF values at
\* Hamming distance at most n from df (for 17 and 1: 1, 16, 17, 19, 21, 25);
\* and once init_bitsets has run, the long-frame set is 16, 17, 18, 20, 21,
\* with 24..31 in a build with ENABLE_DF24, and with that damage set of 17
\* exactly when fixDF and nfix_crc are both non-zero.
C33_DamageSet ==
  /\ demod.pc = "idle" =>
       /\ \A df \in 0 .. 31 : \A n \in 0 .. MaxDamage :
            generate_damage_set(df, n)
              = {x \in 0 .. 31 : HammingDistance(df, x) <= n}
       /\ generate_damage_set(17, 1) = {1, 16, 17, 19, 21, 25}
  /\ demod.valid_df_short_bitset # {} =>
       demod.valid_df_long_bitset =
         {16, 17, 18, 20, 21}
           \cup (IF demod.cfg.ENABLE_DF24 THEN 24 .. 31 ELSE {})
           \cup (IF demod.cfg.fixDF # 0 /\ demod.cfg.nfix_crc # 0
                   THEN {1, 16, 17, 19, 21, 25} ELSE {})

\* init_bitsets has run with both options of the DF repair set.
C33_Witness ==
  /\ demod.cfg.fixDF # 0 /\ demod.cfg.nfix_crc # 0
  /\ demod.valid_df_short_bitset # {}
  /\ demod.valid_df_long_bitset = {1, 16, 17, 18, 19, 20, 21, 25}

\* The sum of the values of a counter array indexed from 0.
RECURSIVE SumTo(_, _)
SumTo(f, n) == IF n < 0 THEN 0 ELSE f[n] + SumTo(f, n - 1)

SumAccepted(s) == SumTo(s.demod_accepted, MODES_MAX_BITERRORS)

SumBestPhase(s) == SumTo(s.demod_bestPhase, 4)

\* The step of demodulate2400 that follows the phase tests of one offset.
DecideStep ==
  /\ demod.pc = "decide"
  /\ demod'.pc = "loop"

\* The three ways a counted candidate ends.
CountedUnknownIcao ==
  /\ demod'.stats.demod_rejected_unknown_icao
       = demod.stats.demod_rejected_unknown_icao + 1
  /\ demod'.stats.demod_rejected_bad = demod.stats.demod_rejected_bad
  /\ demod'.stats.demod_accepted = demod.stats.demod_accepted
  /\ demod'.stats.demod_bestPhase = demod.stats.demod_bestPhase
  /\ demod'.used = demod.used

CountedBad ==
  /\ demod'.stats.demod_rejected_bad = demod.stats.demod_rejected_bad + 1
  /\ demod'.stats.demod_rejected_unknown_icao
       = demod.stats.demod_rejected_unknown_icao
  /\ demod'.stats.demod_accepted = demod.stats.demod_accepted
  /\ demod'.stats.demod_bestPhase = demod.stats.demod_bestPhase
  /\ demod'.used = demod.used

CountedAccepted ==
  /\ \E i \in 0 .. MODES_MAX_BITERRORS :
       demod'.stats.demod_accepted
         = [demod.stats.demod_accepted EXCEPT ![i] = @ + 1]
  /\ demod'.stats.demod_bestPhase
       = [demod.stats.demod_bestPhase EXCEPT ![demod.bestphase - 4] = @ + 1]
  /\ demod'.stats.demod_rejected_bad = demod.stats.demod_rejected_bad
  /\ demod'.stats.demod_rejected_unknown_icao
       = demod.stats.demod_rejected_unknown_icao
  /\ Len(demod'.used) = Len(demod.used) + 1

\* C34: every candidate offset at which score_phase ran at least once adds
\* one to demod_preambles and one to exactly one outcome counter:
\* demod_rejected_unknown_icao when the best score or the decode result is
\* -1, demod_rejected_bad for any other negative, a demod_accepted bucket
\* otherwise; so demod_preambles = demod_rejected_bad +
\* demod_rejected_unknown_icao + sum of demod_accepted, netUseMessage was
\* called sum of demod_accepted times, and sum of demod_bestPhase = sum of
\* demod_accepted.
C34_CountersBalance ==
  /\ [](/\ demod.stats.demod_preambles
             = demod.stats.demod_rejected_bad
               + demod.stats.demod_rejected_unknown_icao
               + SumAccepted(demod.stats)
        /\ Len(demod.used) = SumAccepted(demod.stats)
        /\ SumBestPhase(demod.stats) = SumAccepted(demod.stats))
  /\ [][(DecideStep /\ demod.tried # <<>>)
        => /\ demod'.stats.demod_preambles = demod.stats.demod_preambles + 1
           /\ demod.bestscore = -1 => CountedUnknownIcao
           /\ (demod.bestscore < 0 /\ demod.bestscore # -1) => CountedBad
           /\ demod.bestscore >= 0
                => \A result \in Results : \A cb \in CorrectedBits(result) :
                     demod' = demodulate2400_decide(demod, result, cb)
                       => IF result = -1 THEN CountedUnknownIcao
                          ELSE IF result < 0 THEN CountedBad
                          ELSE CountedAccepted]_vars

\* A run that ended with one candidate accepted and another rejected.
C34_Witness ==
  /\ demod.pc = "done"
  /\ SumAccepted(demod.stats) >= 1
  /\ demod.stats.demod_rejected_bad
       + demod.stats.demod_rejected_unknown_icao >= 1

\* C35: within one call of demodulate2400 the messages are passed to
\* netUseMessage in strictly increasing timestamp order, and no two of
\* them come from the same candidate offset.
C35_TimestampOrder ==
  \A j \in 1 .. Len(demod.used) : \A k \in 1 .. Len(demod.used) :
    j < k => /\ demod.used[j].timestamp < demod.used[k].timestamp
             /\ demod.used[j].offset # demod.used[k].offset

\* The second message was found at an earlier phase than the first one.
C35_Witness ==
  /\ Len(demod.used) >= 2
  /\ demod.used[1].bestphase > demod.used[2].bestphase

\* One pass of the unrolled pre-check, from the loop test on.
PreCheckStep ==
  /\ demod.pc = "loop"
  /\ demod'.pc \in {"loop", "phases"}

\* C36: demodulate2400 scores and decodes only candidates whose offset is
\* inside the buffer, although the unrolled pre-check may leave the search
\* pointer up to 9 samples past the end; the phases it scores are within
\* 4..8, so the indices into demod_preamblePhase and demod_bestPhase are
\* within 0..4.
C36_CandidateInsideBuffer ==
  /\ [](/\ demod.pc \in {"phases", "decide"}
             => /\ 0 <= demod.pa /\ demod.pa < demod.mag.length
                /\ demod.try_phase \in 4 .. 8
                /\ \A i \in 1 .. Len(demod.tried) :
                     demod.tried[i].try_phase - 4 \in 0 .. 4
        /\ (demod.pc = "decide" /\ demod.bestscore >= 0)
             => demod.bestphase - 4 \in 0 .. 4
        /\ \A k \in 1 .. Len(demod.used) :
             /\ demod.used[k].offset < demod.mag.length
             /\ demod.used[k].bestphase - 4 \in 0 .. 4)
  /\ [][PreCheckStep => demod'.pa <= demod.mag.length + 9]_vars

\* A pre-check passed at a position behind the end of the buffer, and the
\* position was skipped.
C36_Witness ==
  /\ demod.pc = "loop"
  /\ demod.used = <<>>
  /\ demod.pa > demod.mag.length
  /\ pre_check(demod.mag, demod.pa - 1)

\* The correlation function slice_phase0 .. slice_phase4 of phase q.
slice_phase(q, mag, p) ==
  CASE q = 0 -> slice_phase0(mag, p)
    [] q = 1 -> slice_phase1(mag, p)
    [] q = 2 -> slice_phase2(mag, p)
    [] q = 3 -> slice_phase3(mag, p)
    [] q = 4 -> slice_phase4(mag, p)

\* Bit k (0 is the most significant) of a byte.
BitOf(byte, k) == (byte \div (2 ^ (7 - k))) % 2

\* The slice_byte calls the claim is checked for: those the last
\* score_phase made, and one of every phase at the first data sample of the
\* offset under test.
SliceCalls ==
  {<<demod.calls[i].pPtr, demod.calls[i].phase>> : i \in 1 .. Len(demod.calls)}
  \cup {<<demod.pa + 19, p>> : p \in 0 .. 4}

\* C37: for every starting phase p in 0..4 and every bit k in 0..7 (most
\* significant first) of a byte sliced by slice_byte, the bit is the sign
\* of slice_phase((p + 12*k) mod 5) at sample offset floor((p + 12*k) / 5)
\* from the byte's start; the next byte starts at floor((p + 96) / 5) with
\* phase (p + 96) mod 5.
C37_BitSpacing ==
  \A c \in SliceCalls :
    LET pPtr == c[1]
        p    == c[2]
        s    == slice_byte(demod.mag, pPtr, p)
    IN  /\ \A k \in 0 .. 7 :
             BitOf(s.theByte, k)
               = IF slice_phase((p + 12 * k) % 5, demod.mag,
                                pPtr + ((p + 12 * k) \div 5)) > 0
                 THEN 1 ELSE 0
        /\ s.pPtr = pPtr + ((p + 96) \div 5)
        /\ s.phase = (p + 96) % 5

\* A byte with set and clear bits was sliced from phase 4, where the
\* pointer advances by 20.
C37_Witness ==
  /\ demod.pc = "decide"
  /\ \E i \in 1 .. Len(demod.calls) :
       /\ demod.calls[i].phase = 4
       /\ slice_byte(demod.mag, demod.calls[i].pPtr, 4).theByte
            \notin {0, 255}

\* The context on top, g_ctx[g_idx - 1], and the line its next pass reads.
TopCtx == cfg_file.g_ctx[cfg_file.g_idx]

AtLine ==
  /\ cfg_file.pc = "parsing"
  /\ TopCtx.pos <= Len(cfg_file.fs[TopCtx.file])

NextLine == cfg_file.fs[TopCtx.file][TopCtx.pos]

\* The next pass reads an include line for an existing file while all
\* contexts are in use.
IncludeAtLimit ==
  /\ AtLine
  /\ cfg_file.g_idx = DIM_g_ctx
  /\ NextLine.key = "include"
  /\ is_regular(cfg_file, NextLine.value.file)

\* C38: cfg_open_and_parse terminates for every finite set of config
\* files, also when files include themselves or each other: 0 <= g_idx <= 4
\* in every state, an include nested deeper is refused with a warning while
\* the parsing of the including file goes on, and g_idx has on return the
\* value it had on entry.
C38_IncludeDepth ==
  /\ [](/\ 0 <= cfg_file.g_idx /\ cfg_file.g_idx <= DIM_g_ctx
        /\ cfg_file.pc \in {"idle", "done"} => cfg_file.g_idx = 0)
  /\ [][/\ cfg_file'.g_idx \in cfg_file.g_idx - 1 .. cfg_file.g_idx + 1
        /\ IncludeAtLimit
             => /\ cfg_file'.g_idx = cfg_file.g_idx
                /\ cfg_file'.pc = "parsing"
                /\ cfg_file'.g_ctx[cfg_file.g_idx].file = TopCtx.file
                /\ cfg_file'.g_ctx[cfg_file.g_idx].pos = TopCtx.pos + 1
                /\ Len(cfg_file'.warnings) = Len(cfg_file.warnings) + 1
                /\ cfg_file'.warnings[Len(cfg_file'.warnings)].what
                     = "Too many nested include files"]_vars
  /\ (cfg_file.pc = "parsing") ~> (cfg_file.pc = "done")

\* A file that includes itself was parsed to the end, and the include at
\* the fourth level was refused.
C38_Witness ==
  /\ cfg_file.pc = "done"
  /\ \E i \in 1 .. Len(cfg_file.warnings) :
       /\ cfg_file.warnings[i].what = "Too many nested include files"
       /\ cfg_file.warnings[i].file = "A"
  /\ \E i \in 1 .. Len(cfg_file.fs["A"]) :
       cfg_file.fs["A"][i] = Include("A", FALSE)

\* What a line `key = value` of the caller's table does when it stands in
\* the file given to the outermost cfg_open_and_parse.
ExternalEffect(key, value) ==
  LET entry == ExternalTable[table_find(ExternalTable, key)]
  IN  parse_and_set_value(value, cfg_file.targets[entry.arg_func],
                          SizeOfType(entry.type))

\* C39: a key/value line of a file pulled in by an include statement is
\* matched against the table given to the outermost cfg_open_and_parse, so
\* that a known external key takes effect in the same way whether it is
\* written in the top-level file or in an included file.
C39_IncludedKeysApply ==
  [][(AtLine /\ NextLine.key \in ExternalKeys)
     => /\ cfg_file'.targets[NextLine.key]
             = ExternalEffect(NextLine.key, NextLine.value).target
        /\ cfg_file'.last.key = NextLine.key
        /\ cfg_file'.last.ret
             = ExternalEffect(NextLine.key, NextLine.value).ret]_vars

\* The range of each numeric target type: its largest value, and whether
\* it holds negative values.
TypeMax(type) ==
  CASE type = "ARG_ATO_U8"  -> UCHAR_MAX_64
    [] type = "ARG_ATO_U16" -> USHRT_MAX_64
    [] type = "ARG_ATO_U32" -> UINT32_MAX_64
    [] type = "ARG_ATO_U64" -> UINT64_MAX_64
    [] type = "ARG_ATOI"    -> INT_MAX_64

InTypeRange(type, num) ==
  IF num.neg
  THEN /\ type = "ARG_ATOI"
       /\ ~gt64(num.mag, <<0, 0, 32768, 0>>)
  ELSE ~gt64(num.mag, TypeMax(type))

\* The number a target holds: the bytes read with the target's type.
TargetValue(type, bytes) ==
  IF type = "ARG_ATOI" /\ bytes[3] >= 32768
  THEN Num(TRUE, cast_u32(neg64(bytes)))
  ELSE Num(FALSE, bytes)

\* C40: parse_and_set_value stores a parsed decimal only if it lies within
\* the range of the target type and otherwise returns false leaving the
\* target unchanged: for the unsigned 8, 16, 32 and 64-bit targets every
\* value below 0 or above the type's maximum is rejected, and for the
\* ARG_ATOI (int) target every value in the range of int, negative values
\* included, is stored unchanged.
C40_RangeChecked ==
  [][(AtLine /\ NextLine.key \in ExternalKeys /\ NextLine.value.num.ok)
     => LET key  == NextLine.key
            num  == NextLine.value.num
            type == ExternalTable[table_find(ExternalTable, key)].type
        IN  type # "ARG_ATOB"
              => IF InTypeRange(type, num)
                 THEN /\ cfg_file'.last.ret
                      /\ TargetValue(type, cfg_file'.targets[key]) = num
                 ELSE /\ ~cfg_file'.last.ret
                      /\ cfg_file'.targets = cfg_file.targets]_vars

====
